---- MODULE Spec2Model ----
(***************************************************************************)
(* Model of the RISC emulator of backend/app: RISCEmulator (emulator.py)   *)
(* driving RISCProcessor (processor.py), RISCAssembler (assembler.py) and  *)
(* TaskManager (tasks.py).                                                 *)
(*                                                                         *)
(* Text is modelled at the level the code inspects it: an operand token is *)
(* a sequence of one-character strings, a source line is the triple that   *)
(* parse_line returns (label, mnemonic, operand tokens), a compiled line   *)
(* is a mnemonic with its operand tokens.  A Python value that may be an   *)
(* int or a str (an operand value, the program counter) is a tagged        *)
(* record, see IntV and StrV.                                              *)
(***************************************************************************)
EXTENDS Integers, Sequences, FiniteSets, TLC

(***************************************************************************)
(* Bounds of the exploration.                                              *)
(***************************************************************************)
MemorySize == 4
MaxCycles == 5
MaxRunSteps == 3

(***************************************************************************)
(* Characters and Python string helpers.                                   *)
(***************************************************************************)
DigitChars == {"0", "1", "2", "3", "4", "5", "6", "7", "8", "9"}

HexLetterChars == {"a", "b", "c", "d", "e", "f"}

CharValue(c) ==
    CASE c = "0" -> 0 [] c = "1" -> 1 [] c = "2" -> 2 [] c = "3" -> 3
      [] c = "4" -> 4 [] c = "5" -> 5 [] c = "6" -> 6 [] c = "7" -> 7
      [] c = "8" -> 8 [] c = "9" -> 9 [] c = "a" -> 10 [] c = "b" -> 11
      [] c = "c" -> 12 [] c = "d" -> 13 [] c = "e" -> 14 [] c = "f" -> 15
      [] OTHER -> 99

LowerChar(c) ==
    CASE c = "A" -> "a" [] c = "B" -> "b" [] c = "C" -> "c" [] c = "D" -> "d"
      [] c = "E" -> "e" [] c = "F" -> "f" [] c = "X" -> "x" [] c = "R" -> "r"
      [] OTHER -> c

UpperChar(c) ==
    CASE c = "a" -> "A" [] c = "b" -> "B" [] c = "c" -> "C" [] c = "d" -> "D"
      [] c = "e" -> "E" [] c = "f" -> "F" [] c = "x" -> "X" [] c = "r" -> "R"
      [] OTHER -> c

Lower(s) == [i \in 1..Len(s) |-> LowerChar(s[i])]

Upper(s) == [i \in 1..Len(s) |-> UpperChar(s[i])]

StartsWith(s, prefix) ==
    /\ Len(s) >= Len(prefix)
    /\ SubSeq(s, 1, Len(prefix)) = prefix

Rest(s, n) == SubSeq(s, n + 1, Len(s))

IsDigit(s) == Len(s) > 0 /\ \A i \in 1..Len(s) : s[i] \in DigitChars

RECURSIVE DigitsValue(_, _)
DigitsValue(s, base) ==
    IF s = <<>> THEN 0
    ELSE DigitsValue(SubSeq(s, 1, Len(s) - 1), base) * base + CharValue(s[Len(s)])

AllDigitsOf(s, base) ==
    Len(s) > 0 /\ \A i \in 1..Len(s) : CharValue(s[i]) < base

(* int(s, base) of Python for base 10, 2 and 16: an optional sign, for a   *)
(* base other than 10 an optional base prefix, then at least one digit.    *)
(* ok = FALSE stands for the ValueError.                                   *)
PyIntBody(s, base) ==
    LET t == Lower(s)
        body == IF base = 16 /\ StartsWith(t, <<"0", "x">>) THEN Rest(t, 2)
                ELSE IF base = 2 /\ StartsWith(t, <<"0", "b">>) THEN Rest(t, 2)
                ELSE t
    IN  IF AllDigitsOf(body, base)
        THEN [ok |-> TRUE, n |-> DigitsValue(body, base)]
        ELSE [ok |-> FALSE, n |-> 0]

PyInt(s, base) ==
    IF Len(s) > 0 /\ s[1] = "-"
    THEN LET r == PyIntBody(Rest(s, 1), base) IN [ok |-> r.ok, n |-> 0 - r.n]
    ELSE IF Len(s) > 0 /\ s[1] = "+"
    THEN PyIntBody(Rest(s, 1), base)
    ELSE PyIntBody(s, base)

RECURSIVE NatStr(_)
NatStr(n) ==
    LET d == <<"0", "1", "2", "3", "4", "5", "6", "7", "8", "9">>[(n % 10) + 1]
    IN  IF n < 10 THEN <<d>> ELSE NatStr(n \div 10) \o <<d>>

(* str(n) of Python for an int.                                            *)
PyStr(n) == IF n < 0 THEN <<"-">> \o NatStr(0 - n) ELSE NatStr(n)

(***************************************************************************)
(* Python values: an int or a str.                                         *)
(***************************************************************************)
IntV(n) == [t |-> "int", n |-> n, s |-> <<>>]

StrV(s) == [t |-> "str", n |-> 0, s |-> s]

IsInt(v) == v.t = "int"

(***************************************************************************)
(* RISCProcessor: operand parsing.                                         *)
(***************************************************************************)
Parsed(v, mode) == [ok |-> TRUE, v |-> v, mode |-> mode, exc |-> ""]

ParseError(exc) == [ok |-> FALSE, v |-> IntV(0), mode |-> "immediate", exc |-> exc]

_parse_number(value) ==
    LET v == Lower(value)
    IN  IF StartsWith(v, <<"0", "x">>) THEN PyInt(Rest(v, 2), 16)
        ELSE IF StartsWith(v, <<"0", "b">>) THEN PyInt(Rest(v, 2), 2)
        ELSE PyInt(v, 10)

_parse_register(reg_str) ==
    LET r == Upper(reg_str)
    IN  IF StartsWith(r, <<"R">>) /\ Len(r) = 2
        THEN LET d == PyInt(<<r[2]>>, 10)
             IN  IF ~d.ok THEN [ok |-> FALSE, n |-> 0, exc |-> "ValueError"]
                 ELSE IF 0 <= d.n /\ d.n <= 7 THEN [ok |-> TRUE, n |-> d.n, exc |-> ""]
                 ELSE [ok |-> FALSE, n |-> 0, exc |-> "Invalid register"]
        ELSE [ok |-> FALSE, n |-> 0, exc |-> "Invalid register"]

NumberOperand(token, mode) ==
    LET r == _parse_number(token)
    IN  IF r.ok THEN Parsed(IntV(r.n), mode) ELSE ParseError("ValueError")

RegisterOperand(token, mode) ==
    LET r == _parse_register(token)
    IN  IF r.ok THEN Parsed(IntV(r.n), mode) ELSE ParseError(r.exc)

_parse_operand(operand_str) ==
    IF IsDigit(operand_str)
       \/ (StartsWith(operand_str, <<"-">>) /\ IsDigit(Rest(operand_str, 1)))
    THEN NumberOperand(operand_str, "immediate")
    ELSE IF StartsWith(operand_str, <<"0", "x">>)
    THEN NumberOperand(operand_str, "immediate")
    ELSE IF StartsWith(operand_str, <<"[">>) /\ operand_str[Len(operand_str)] = "]"
    THEN LET inner == SubSeq(operand_str, 2, Len(operand_str) - 1)
         IN  IF StartsWith(Upper(inner), <<"R">>) /\ Len(inner) = 2
             THEN RegisterOperand(inner, "indirect_register")
             ELSE NumberOperand(inner, "direct")
    ELSE IF StartsWith(Upper(operand_str), <<"R">>) /\ Len(operand_str) = 2
    THEN RegisterOperand(operand_str, "register")
    ELSE Parsed(StrV(operand_str), "immediate")

(***************************************************************************)
(* RISCAssembler.  A source line is the result of parse_line: its label    *)
(* token (<<>> when it has none), its mnemonic in upper case ("" when it   *)
(* has none) and its operand tokens.  A compiled line "MNEMONIC a, b" is   *)
(* the mnemonic with its operand tokens, which is what the split of        *)
(* step() and of pass 2 recovers from the text.                            *)
(***************************************************************************)
SrcLine(label, instruction, operands) ==
    [label |-> label, instruction |-> instruction, operands |-> operands]

CodeLine(instruction, operands) ==
    [instruction |-> instruction, operands |-> operands]

NoLabels == [k \in {} |-> 0]

(* labels[label] = code_index, and the same keeping an index already set   *)
SetLabel_FirstWins(labels, label, index) ==
    [k \in (DOMAIN labels) \cup {label} |->
        IF k \in DOMAIN labels THEN labels[k] ELSE index]

SetLabel(labels, label, index) ==
    [k \in (DOMAIN labels) \cup {label} |-> IF k = label THEN index ELSE labels[k]]

RECURSIVE AssemblePass1(_, _, _, _)
AssemblePass1(lines, i, machine_code, labels) ==
    IF i > Len(lines) THEN [machine_code |-> machine_code, labels |-> labels]
    ELSE LET line == lines[i]
             labels1 == IF line.label # <<>>
                        THEN SetLabel(labels, line.label, Len(machine_code))
                        ELSE labels
             code1 == IF line.instruction # ""
                      THEN Append(machine_code, CodeLine(line.instruction, line.operands))
                      ELSE machine_code
         IN  AssemblePass1(lines, i + 1, code1, labels1)

ResolveOperand(operand, labels) ==
    IF operand \in DOMAIN labels THEN PyStr(labels[operand]) ELSE operand

AssemblePass2(machine_code, labels) ==
    [i \in 1..Len(machine_code) |->
        CodeLine(machine_code[i].instruction,
                 [j \in 1..Len(machine_code[i].operands) |->
                     ResolveOperand(machine_code[i].operands[j], labels)])]

(* assemble with a label numbered by the source line that defines it       *)
assemble_CountsSourceLines(source_code) ==
    LET pass1 == AssemblePass1(source_code, 1, <<>>, NoLabels)
        LastDefinition(label) ==
            CHOOSE i \in 1..Len(source_code) :
                /\ source_code[i].label = label
                /\ \A j \in (i + 1)..Len(source_code) : source_code[j].label # label
        labels == [label \in DOMAIN pass1.labels |-> LastDefinition(label) - 1]
    IN  [machine_code |-> AssemblePass2(pass1.machine_code, labels),
         labels |-> labels]

assemble(source_code) ==
    LET pass1 == AssemblePass1(source_code, 1, <<>>, NoLabels)
    IN  [machine_code |-> AssemblePass2(pass1.machine_code, pass1.labels),
         labels |-> pass1.labels]

(***************************************************************************)
(* RISCProcessor: the instruction set.                                     *)
(***************************************************************************)
Mnemonics ==
    {"ADD", "SUB", "MUL", "DIV", "AND", "OR", "XOR", "NOT", "MOV", "LDI",
     "LDR", "LDRR", "STR", "STRR", "CMP", "JMP", "JZ", "JNZ", "JC", "JNC",
     "JV", "JNV", "JN", "JNN", "HALT", "NOP"}

instructions ==
    [m \in Mnemonics |->
        CASE m = "ADD" -> 1 [] m = "SUB" -> 2 [] m = "MUL" -> 3 [] m = "DIV" -> 4
          [] m = "AND" -> 5 [] m = "OR" -> 6 [] m = "XOR" -> 7 [] m = "NOT" -> 8
          [] m = "MOV" -> 16 [] m = "LDI" -> 17 [] m = "LDR" -> 18
          [] m = "LDRR" -> 19 [] m = "STR" -> 20 [] m = "STRR" -> 21
          [] m = "CMP" -> 32 [] m = "JMP" -> 33 [] m = "JZ" -> 34
          [] m = "JNZ" -> 35 [] m = "JC" -> 36 [] m = "JNC" -> 37
          [] m = "JV" -> 38 [] m = "JNV" -> 39 [] m = "JN" -> 40
          [] m = "JNN" -> 41 [] m = "HALT" -> 255 [] m = "NOP" -> 0]

Opcode(instruction) ==
    IF instruction \in Mnemonics THEN instructions[instruction] ELSE 0

(***************************************************************************)
(* 16-bit arithmetic.                                                      *)
(***************************************************************************)
Word == 65536

Mask16(n) == n % Word

RECURSIVE BitAnd(_, _)
BitAnd(a, b) ==
    IF a = 0 \/ b = 0 THEN 0
    ELSE (a % 2) * (b % 2) + 2 * BitAnd(a \div 2, b \div 2)

RECURSIVE BitOr(_, _)
BitOr(a, b) ==
    IF a = 0 THEN b
    ELSE IF b = 0 THEN a
    ELSE (IF a % 2 = 1 \/ b % 2 = 1 THEN 1 ELSE 0) + 2 * BitOr(a \div 2, b \div 2)

RECURSIVE BitXor(_, _)
BitXor(a, b) ==
    IF a = 0 THEN b
    ELSE IF b = 0 THEN a
    ELSE (IF a % 2 # b % 2 THEN 1 ELSE 0) + 2 * BitXor(a \div 2, b \div 2)

(* (a * b) & 0xFFFF without leaving the 32-bit range of the model checker, *)
(* and the same without the product of the high byte                       *)
MulMask16_LowByteOnly(a, b) == Mask16((Mask16(a) % 256) * Mask16(b))

MulMask16(a, b) ==
    LET x == Mask16(a)
        y == Mask16(b)
    IN  Mask16((x % 256) * y + 256 * Mask16((x \div 256) * y))

(* a // b of Python (floor division), b # 0                                *)
FloorDiv(a, b) == IF b > 0 THEN a \div b ELSE (0 - a) \div (0 - b)

Computed(n) == [ok |-> TRUE, n |-> n, exc |-> ""]

Failed(exc) == [ok |-> FALSE, n |-> 0, exc |-> exc]

(* The value an ALU instruction passes to update_flags and to              *)
(* _update_register: "result = val1 <op> val2; result = result & 0xFFFF",  *)
(* with the TypeError or ValueError of Python when an operand is a str.    *)
AluResult(instruction, val1, val2) ==
    IF instruction = "DIV" /\ IsInt(val2) /\ val2.n = 0
    THEN Failed("Division by zero")
    ELSE IF instruction = "ADD" /\ ~IsInt(val1) /\ ~IsInt(val2)
    THEN LET r == PyInt(val1.s \o val2.s, 10)
         IN  IF r.ok THEN Computed(Mask16(r.n)) ELSE Failed("ValueError")
    ELSE IF ~IsInt(val1) \/ ~IsInt(val2)
    THEN Failed("TypeError")
    ELSE CASE instruction = "ADD" -> Computed(Mask16(val1.n + val2.n))
           [] instruction = "SUB" -> Computed(Mask16(val1.n - val2.n))
           [] instruction = "MUL" -> Computed(MulMask16(val1.n, val2.n))
           [] instruction = "DIV" ->
                 IF val2.n = 0 THEN Failed("ZeroDivisionError")
                 ELSE Computed(Mask16(FloorDiv(val1.n, val2.n)))
           [] instruction = "AND" -> Computed(BitAnd(Mask16(val1.n), Mask16(val2.n)))
           [] instruction = "OR" -> Computed(BitOr(Mask16(val1.n), Mask16(val2.n)))
           [] instruction = "XOR" -> Computed(BitXor(Mask16(val1.n), Mask16(val2.n)))

(***************************************************************************)
(* RISCProcessor: operand access, flags, registers.  p is the part of the  *)
(* processor that execute_instruction reads and writes: registers (R0..R7, *)
(* register r at index r + 1), program_counter, flags, is_halted and ram   *)
(* (cell a at index a + 1).  An operation that may raise returns the state *)
(* it leaves behind and the exception ("" when it returns normally).       *)
(***************************************************************************)
Returns(p) == [p |-> p, exc |-> ""]

Raises(p, exc) == [p |-> p, exc |-> exc]

Zeros(n) == [i \in 1..n |-> 0]

Max(a, b) == IF a >= b THEN a ELSE b

_get_operand_value(p, operand, addressing_mode) ==
    CASE addressing_mode = "immediate" -> operand
      [] addressing_mode = "register" ->
            IF operand.n < 0 \/ operand.n >= Len(p.registers) THEN IntV(0)
            ELSE IntV(p.registers[operand.n + 1])
      [] addressing_mode = "direct" ->
            IF 0 <= operand.n /\ operand.n < Len(p.ram)
            THEN IntV(p.ram[operand.n + 1])
            ELSE IntV(0)
      [] addressing_mode = "indirect_register" ->
            LET addr == p.registers[operand.n + 1]
            IN  IF 0 <= addr /\ addr < Len(p.ram) THEN IntV(p.ram[addr + 1]) ELSE IntV(0)
      [] OTHER -> IntV(0)

(* update_flags, and the same with the carry of a 16-bit adder             *)
update_flags_UnsignedCarry(p, result, operation) ==
    [p EXCEPT !.flags =
        [zero |-> (result = 0),
         negative |-> (result < 0),
         overflow |-> (result > 32767 \/ result < -32768),
         carry |-> (result > 65535 \/ result < 0)]]

update_flags(p, result, operation) ==
    [p EXCEPT !.flags =
        [zero |-> (result = 0),
         negative |-> (result < 0),
         overflow |-> (result > 32767 \/ result < -32768),
         carry |-> \/ (operation = "add" /\ result < 0)
                   \/ (operation = "sub" /\ result > 0)]]

(* int(value) of a Python value                                            *)
IntOfValue(value) == IF IsInt(value) THEN [ok |-> TRUE, n |-> value.n] ELSE PyInt(value.s, 10)

(* _update_register, and the same storing the value without "& 0xFFFF"     *)
_update_register_Unmasked(p, rd, value) ==
    IF ~IsInt(rd) THEN Raises(p, "TypeError")
    ELSE IF 0 <= rd.n /\ rd.n < 8
    THEN LET v == IntOfValue(value)
         IN  IF v.ok
             THEN Returns([p EXCEPT !.registers =
                              [i \in 1..8 |-> IF i = rd.n + 1 THEN v.n
                                              ELSE Mask16(p.registers[i])]])
             ELSE Raises(p, "ValueError")
    ELSE Raises(p, "Invalid register index")

_update_register(p, rd, value) ==
    IF ~IsInt(rd) THEN Raises(p, "TypeError")
    ELSE IF 0 <= rd.n /\ rd.n < 8
    THEN LET v == IntOfValue(value)
         IN  IF v.ok
             THEN Returns([p EXCEPT !.registers =
                              [i \in 1..8 |-> IF i = rd.n + 1 THEN Mask16(v.n)
                                              ELSE Mask16(p.registers[i])]])
             ELSE Raises(p, "ValueError")
    ELSE Raises(p, "Invalid register index")

(* the store "new_ram[addr] = int(value) & 0xFFFF" into a ram that the     *)
(* caller has grown to addr + 1 cells when addr was beyond its end; a      *)
(* negative addr indexes the list from its end                             *)
StoreCell(p, ram, addr, value) ==
    LET v == IntOfValue(value)
        grown == [p EXCEPT !.ram = ram]
    IN  IF ~v.ok THEN Raises(grown, "ValueError")
        ELSE IF addr >= 0
        THEN Returns([p EXCEPT !.ram = [ram EXCEPT ![addr + 1] = Mask16(v.n)]])
        ELSE IF addr + Len(ram) >= 0
        THEN Returns([p EXCEPT !.ram = [ram EXCEPT ![addr + Len(ram) + 1] = Mask16(v.n)]])
        ELSE Raises(grown, "IndexError")

GrowRam(ram, addr, memory_size) ==
    LET ram1 == IF ram = <<>> THEN Zeros(Max(addr + 1, memory_size)) ELSE ram
    IN  IF addr >= Len(ram1) THEN ram1 \o Zeros(addr + 1 - Len(ram1)) ELSE ram1

(* the trace line after a store formats value with ":04X", which raises    *)
(* ValueError for a str that int() accepted                                *)
Traced(r, value) ==
    IF r.exc = "" /\ ~IsInt(value) THEN Raises(r.p, "ValueError") ELSE r

_set_operand_value(p, operand, value, addressing_mode) ==
    CASE addressing_mode = "register" -> _update_register(p, operand, value)
      [] addressing_mode = "direct" ->
            Traced(StoreCell(p, GrowRam(p.ram, operand.n, MemorySize), operand.n, value),
                   value)
      [] addressing_mode = "indirect_register" ->
            LET addr == p.registers[operand.n + 1]
            IN  Traced(StoreCell(p, GrowRam(p.ram, addr, MemorySize), addr, value), value)
      [] OTHER -> Returns(p)

(***************************************************************************)
(* RISCProcessor.execute_instruction, one operator per group of branches,  *)
(* each given the parsed operands ops.                                     *)
(* Each returns the state left behind and the exception raised, if any;    *)
(* the trailing "program_counter += 1" is applied by execute_instruction.  *)
(***************************************************************************)
(* the three-operand arithmetic branches, and the same writing 0 to the    *)
(* destination before the failure of the operation is raised               *)
ExecAlu3_StoresBeforeRaise(p, instruction, ops, operation) ==
    IF Len(ops) < 3 THEN Raises(p, "requires operands")
    ELSE LET rd == ops[1]
             rs1 == ops[2]
             rs2 == ops[3]
         IN  IF ~rd.ok THEN Raises(p, rd.exc)
             ELSE IF ~rs1.ok THEN Raises(p, rs1.exc)
             ELSE IF ~rs2.ok THEN Raises(p, rs2.exc)
             ELSE LET val1 == _get_operand_value(p, rs1.v, rs1.mode)
                      val2 == _get_operand_value(p, rs2.v, rs2.mode)
                      result == AluResult(instruction, val1, val2)
                  IN  IF ~result.ok
                      THEN Raises(_update_register(p, rd.v, IntV(0)).p, result.exc)
                      ELSE _update_register(update_flags(p, result.n, operation),
                                            rd.v, IntV(result.n))

(* the same giving update_flags the sum or difference before "& 0xFFFF"    *)
ExecAlu3_FlagsBeforeMask(p, instruction, ops, operation) ==
    IF Len(ops) < 3 THEN Raises(p, "requires operands")
    ELSE LET rd == ops[1]
             rs1 == ops[2]
             rs2 == ops[3]
         IN  IF ~rd.ok THEN Raises(p, rd.exc)
             ELSE IF ~rs1.ok THEN Raises(p, rs1.exc)
             ELSE IF ~rs2.ok THEN Raises(p, rs2.exc)
             ELSE LET val1 == _get_operand_value(p, rs1.v, rs1.mode)
                      val2 == _get_operand_value(p, rs2.v, rs2.mode)
                      result == AluResult(instruction, val1, val2)
                      raw == IF instruction = "ADD" THEN val1.n + val2.n
                             ELSE IF instruction = "SUB" THEN val1.n - val2.n
                             ELSE result.n
                  IN  IF ~result.ok THEN Raises(p, result.exc)
                      ELSE _update_register(update_flags(p, raw, operation),
                                            rd.v, IntV(result.n))

ExecAlu3(p, instruction, ops, operation) ==
    IF Len(ops) < 3 THEN Raises(p, "requires operands")
    ELSE LET rd == ops[1]
             rs1 == ops[2]
             rs2 == ops[3]
         IN  IF ~rd.ok THEN Raises(p, rd.exc)
             ELSE IF ~rs1.ok THEN Raises(p, rs1.exc)
             ELSE IF ~rs2.ok THEN Raises(p, rs2.exc)
             ELSE LET val1 == _get_operand_value(p, rs1.v, rs1.mode)
                      val2 == _get_operand_value(p, rs2.v, rs2.mode)
                      result == AluResult(instruction, val1, val2)
                  IN  IF ~result.ok THEN Raises(p, result.exc)
                      ELSE _update_register(update_flags(p, result.n, operation),
                                            rd.v, IntV(result.n))

ExecNot(p, ops) ==
    IF Len(ops) < 2 THEN Raises(p, "requires operands")
    ELSE LET rd == ops[1]
             rs1 == ops[2]
         IN  IF ~rd.ok THEN Raises(p, rd.exc)
             ELSE IF ~rs1.ok THEN Raises(p, rs1.exc)
             ELSE LET val1 == _get_operand_value(p, rs1.v, rs1.mode)
                  IN  IF ~IsInt(val1) THEN Raises(p, "TypeError")
                      ELSE LET result == Mask16(0 - val1.n - 1)
                           IN  _update_register(update_flags(p, result, ""),
                                                rd.v, IntV(result))

ExecMov(p, ops) ==
    IF Len(ops) < 2 THEN Raises(p, "requires operands")
    ELSE LET rd == ops[1]
             rs1 == ops[2]
         IN  IF ~rd.ok THEN Raises(p, rd.exc)
             ELSE IF ~rs1.ok THEN Raises(p, rs1.exc)
             ELSE LET val1 == _get_operand_value(p, rs1.v, rs1.mode)
                  IN  IF ~IsInt(val1) THEN Raises(p, "TypeError")
                      ELSE _update_register(p, rd.v, IntV(Mask16(val1.n)))

ExecLdi(p, ops) ==
    IF Len(ops) < 2 THEN Raises(p, "requires operands")
    ELSE LET rd == ops[1]
             imm == ops[2]
         IN  IF ~rd.ok THEN Raises(p, rd.exc)
             ELSE IF ~imm.ok THEN Raises(p, imm.exc)
             ELSE LET v == IntOfValue(imm.v)
                  IN  IF ~v.ok THEN Raises(p, "ValueError")
                      ELSE _update_register(p, rd.v, IntV(Mask16(v.n)))

ExecLdr(p, ops) ==
    IF Len(ops) < 2 THEN Raises(p, "requires operands")
    ELSE LET rd == ops[1]
             addr == ops[2]
         IN  IF ~rd.ok THEN Raises(p, rd.exc)
             ELSE IF ~addr.ok THEN Raises(p, addr.exc)
             ELSE IF addr.mode # "direct"
             THEN Raises(p, "LDR requires DIRECT addressing mode")
             ELSE LET mem_val == IF addr.v.n < 0 THEN 0
                                 ELSE IF addr.v.n >= Len(p.ram) THEN 0
                                 ELSE Mask16(p.ram[addr.v.n + 1])
                  IN  _update_register(p, rd.v, IntV(mem_val))

(* LDRR reading the cell whose address is the number of the register       *)
ExecLdrr_RegisterNumber(p, ops) ==
    IF Len(ops) < 2 THEN Raises(p, "requires operands")
    ELSE LET rd == ops[1]
             rs1 == ops[2]
         IN  IF ~rd.ok THEN Raises(p, rd.exc)
             ELSE IF ~rs1.ok THEN Raises(p, rs1.exc)
             ELSE IF ~IsInt(rs1.v) THEN Raises(p, "TypeError")
             ELSE _update_register(p, rd.v, IntV(Mask16(p.ram[rs1.v.n + 1])))

ExecLdrr(p, ops) ==
    IF Len(ops) < 2 THEN Raises(p, "requires operands")
    ELSE LET rd == ops[1]
             rs1 == ops[2]
         IN  IF ~rd.ok THEN Raises(p, rd.exc)
             ELSE IF ~rs1.ok THEN Raises(p, rs1.exc)
             ELSE IF ~IsInt(rs1.v) THEN Raises(p, "TypeError")
             ELSE LET addr == IF rs1.v.n < 0 \/ rs1.v.n >= Len(p.registers) THEN 0
                              ELSE Mask16(p.registers[rs1.v.n + 1])
                      mem_val == IF rs1.v.n < 0 \/ rs1.v.n >= Len(p.registers) THEN 0
                                 ELSE IF p.ram = <<>> THEN 0
                                 ELSE IF addr >= Len(p.ram) THEN 0
                                 ELSE Mask16(p.ram[addr + 1])
                  IN  _update_register(p, rd.v, IntV(mem_val))

(* STR formats val1 and addr with ":04X" in its trace line, which raises   *)
(* ValueError for a str, and reads ram[addr] for the trace before storing  *)
ExecStr(p, ops) ==
    IF Len(ops) < 2 THEN Raises(p, "requires operands")
    ELSE LET rs1 == ops[1]
             addr == ops[2]
         IN  IF ~rs1.ok THEN Raises(p, rs1.exc)
             ELSE IF ~addr.ok THEN Raises(p, addr.exc)
             ELSE LET val1 == _get_operand_value(p, rs1.v, rs1.mode)
                  IN  IF ~IsInt(val1) \/ ~IsInt(addr.v) THEN Raises(p, "ValueError")
                      ELSE IF p.ram # <<>> /\ addr.v.n < 0 - Len(p.ram)
                      THEN Raises(p, "IndexError")
                      ELSE _set_operand_value(p, addr.v, val1, addr.mode)

ExecStrr(p, ops) ==
    IF Len(ops) < 2 THEN Raises(p, "requires operands")
    ELSE LET rs1 == ops[1]
             rd == ops[2]
         IN  IF ~rs1.ok THEN Raises(p, rs1.exc)
             ELSE IF ~rd.ok THEN Raises(p, rd.exc)
             ELSE _set_operand_value(p, rd.v, _get_operand_value(p, rs1.v, rs1.mode),
                                     rd.mode)

(* CMP, and the same with the difference masked like an ALU result         *)
ExecCmp_Masked(p, ops) ==
    IF Len(ops) < 2 THEN Raises(p, "requires operands")
    ELSE LET rs1 == ops[1]
             rs2 == ops[2]
         IN  IF ~rs1.ok THEN Raises(p, rs1.exc)
             ELSE IF ~rs2.ok THEN Raises(p, rs2.exc)
             ELSE LET val1 == _get_operand_value(p, rs1.v, rs1.mode)
                      val2 == _get_operand_value(p, rs2.v, rs2.mode)
                  IN  IF ~IsInt(val1) \/ ~IsInt(val2) THEN Raises(p, "TypeError")
                      ELSE Returns(update_flags(p, Mask16(val1.n - val2.n), ""))

ExecCmp(p, ops) ==
    IF Len(ops) < 2 THEN Raises(p, "requires operands")
    ELSE LET rs1 == ops[1]
             rs2 == ops[2]
         IN  IF ~rs1.ok THEN Raises(p, rs1.exc)
             ELSE IF ~rs2.ok THEN Raises(p, rs2.exc)
             ELSE LET val1 == _get_operand_value(p, rs1.v, rs1.mode)
                      val2 == _get_operand_value(p, rs2.v, rs2.mode)
                  IN  IF ~IsInt(val1) \/ ~IsInt(val2) THEN Raises(p, "TypeError")
                      ELSE Returns(update_flags(p, val1.n - val2.n, ""))

(* PC assignment of a jump that is taken, and the same followed by the     *)
(* "program_counter += 1" that ends the other branches                     *)
JumpTarget_ThenAdvance(p, ops) ==
    LET addr == ops[1]
    IN  IF ~addr.ok THEN Raises(p, addr.exc)
        ELSE IF addr.mode = "immediate"
        THEN Returns([p EXCEPT !.program_counter = IntV(addr.v.n + 1)])
        ELSE Returns([p EXCEPT !.program_counter =
                         IntV(_get_operand_value(p, addr.v, addr.mode).n + 1)])

JumpTarget(p, ops) ==
    LET addr == ops[1]
    IN  IF ~addr.ok THEN Raises(p, addr.exc)
        ELSE IF addr.mode = "immediate"
        THEN Returns([p EXCEPT !.program_counter = addr.v])
        ELSE Returns([p EXCEPT !.program_counter =
                         _get_operand_value(p, addr.v, addr.mode)])

PcAdvance(r) ==
    IF r.exc # "" THEN r
    ELSE Returns([r.p EXCEPT !.program_counter = IntV(r.p.program_counter.n + 1)])

(* JMP (taken = TRUE) and the conditional jumps                            *)
ExecJump(p, ops, taken) ==
    IF Len(ops) < 1 THEN Raises(p, "requires operands")
    ELSE IF taken THEN JumpTarget(p, ops)
    ELSE PcAdvance(Returns(p))

(* the operands of the instruction as _parse_operand reads them; a branch  *)
(* looks only at the operands that its code parses                        *)
ParseOperands(operands) == [i \in 1..Len(operands) |-> _parse_operand(operands[i])]

ExecuteParsed(p, instruction, ops) ==
    IF instruction \notin Mnemonics THEN Raises(p, "Unknown instruction")
    ELSE CASE instruction = "ADD" -> PcAdvance(ExecAlu3(p, instruction, ops, "add"))
           [] instruction = "SUB" -> PcAdvance(ExecAlu3(p, instruction, ops, "sub"))
           [] instruction \in {"MUL", "DIV", "AND", "OR", "XOR"} ->
                 PcAdvance(ExecAlu3(p, instruction, ops, ""))
           [] instruction = "NOT" -> PcAdvance(ExecNot(p, ops))
           [] instruction = "MOV" -> PcAdvance(ExecMov(p, ops))
           [] instruction = "LDI" -> PcAdvance(ExecLdi(p, ops))
           [] instruction = "LDR" -> PcAdvance(ExecLdr(p, ops))
           [] instruction = "LDRR" -> PcAdvance(ExecLdrr(p, ops))
           [] instruction = "STR" -> PcAdvance(ExecStr(p, ops))
           [] instruction = "STRR" -> PcAdvance(ExecStrr(p, ops))
           [] instruction = "CMP" -> PcAdvance(ExecCmp(p, ops))
           [] instruction = "JMP" -> ExecJump(p, ops, TRUE)
           [] instruction = "JZ" -> ExecJump(p, ops, p.flags.zero)
           [] instruction = "JNZ" -> ExecJump(p, ops, ~p.flags.zero)
           [] instruction = "JC" -> ExecJump(p, ops, p.flags.carry)
           [] instruction = "JNC" -> ExecJump(p, ops, ~p.flags.carry)
           [] instruction = "HALT" -> Returns([p EXCEPT !.is_halted = TRUE])
           [] OTHER -> PcAdvance(Returns(p))

(* execute_instruction, and the same with JV and JN jumping on the         *)
(* overflow and the negative flag                                          *)
execute_instruction_FlagJumps(p, instruction, operands) ==
    CASE instruction = "JV" -> ExecJump(p, ParseOperands(operands), p.flags.overflow)
      [] instruction = "JN" -> ExecJump(p, ParseOperands(operands), p.flags.negative)
      [] OTHER -> ExecuteParsed(p, instruction, ParseOperands(operands))

execute_instruction(p, instruction, operands) ==
    ExecuteParsed(p, instruction, ParseOperands(operands))

(***************************************************************************)
(* RISCProcessor.step on the whole machine m: the processor state, the     *)
(* memory state (ram, history) and the loaded program.                     *)
(***************************************************************************)
NoCommand == [kind |-> "empty", line |-> CodeLine("", <<>>), text |-> ""]

LineCommand(line) == [kind |-> "line", line |-> line, text |-> ""]

(* f"ERROR: {str(e)}"                                                      *)
ErrorCommand(exc) == [kind |-> "error", line |-> CodeLine("", <<>>), text |-> exc]

NoFlags == [zero |-> FALSE, carry |-> FALSE, overflow |-> FALSE, negative |-> FALSE]

(* compiled_code[i] of Python: a negative i counts from the end            *)
ListIndex(list, i) == IF i >= 0 THEN i + 1 ELSE Len(list) + i + 1

InList(list, i) == i < Len(list) /\ i >= 0 - Len(list)

(* What a call of step leaves behind: the machine, the value returned,     *)
(* the exception its except branch caught (exc) and the exception that     *)
(* left step uncaught (raised), "" for none; and the same with True for    *)
(* every return that is not the except branch.                             *)
StepReturn_AlwaysTrue(m, continues) ==
    [m |-> m, continues |-> TRUE, exc |-> "", raised |-> ""]

StepReturn(m, continues) ==
    [m |-> m, continues |-> continues, exc |-> "", raised |-> ""]

StepRaise(m, exc) == [m |-> m, continues |-> FALSE, exc |-> "", raised |-> exc]

ExecPart(m) ==
    [registers |-> m.registers, program_counter |-> m.program_counter,
     flags |-> m.flags, is_halted |-> m.is_halted, ram |-> m.ram]

WithExecPart(m, p) ==
    [m EXCEPT !.registers = p.registers, !.program_counter = p.program_counter,
              !.flags = p.flags, !.is_halted = p.is_halted, !.ram = p.ram]

(* the except branch of step, and the same without halting the processor  *)
StepFailed_NotHalted(m, exc) ==
    [m |-> [m EXCEPT !.current_command = ErrorCommand(exc)],
     continues |-> FALSE, exc |-> exc, raised |-> ""]

StepFailed(m, exc) ==
    [m |-> [m EXCEPT !.is_halted = TRUE, !.current_command = ErrorCommand(exc)],
     continues |-> FALSE, exc |-> exc, raised |-> ""]

(* the history entry of step, and the same built from the state after the  *)
(* instruction only                                                        *)
HistoryEntry_AfterOnly(line, regs_before, regs_after, flags_before, flags_after, pc_before, pc_after) ==
    [command |-> line,
     instruction |-> line.instruction,
     operands |-> line.operands,
     registers_before |-> regs_after,
     registers_after |-> regs_after,
     registers |-> regs_after,
     flags_before |-> flags_after,
     flags_after |-> flags_after,
     flags |-> flags_after,
     programCounter |-> pc_after,
     programCounter_before |-> pc_before]

HistoryEntry(line, regs_before, regs_after, flags_before, flags_after, pc_before, pc_after) ==
    [command |-> line,
     instruction |-> line.instruction,
     operands |-> line.operands,
     registers_before |-> regs_before,
     registers_after |-> regs_after,
     registers |-> regs_after,
     flags_before |-> flags_before,
     flags_after |-> flags_after,
     flags |-> flags_after,
     programCounter |-> pc_after,
     programCounter_before |-> pc_before]

(* the try block of step after execute_instruction has left r: the cycle   *)
(* counter, the next instruction in the instruction registers, the history *)
(* entry                                                                   *)
StepFinish(m1, instruction_line, r) ==
    LET registers_before == [i \in 1..8 |-> Mask16(m1.registers[i])]
        m2 == [WithExecPart(m1, r.p) EXCEPT !.cycles = m1.cycles + 1]
        pc_after == m2.program_counter
        registers_after == [i \in 1..8 |-> Mask16(m2.registers[i])]
        fetch_next == ~m2.is_halted /\ pc_after.n < Len(m2.compiled_code)
        next_line == m2.compiled_code[ListIndex(m2.compiled_code, pc_after.n)]
        m3 == IF fetch_next
              THEN [m2 EXCEPT !.current_command = LineCommand(next_line),
                              !.instruction_register_asm = LineCommand(next_line),
                              !.instruction_register = Opcode(next_line.instruction)]
              ELSE m2
        entry == HistoryEntry(instruction_line, registers_before, registers_after,
                              m1.flags, m2.flags, m1.program_counter.n, pc_after.n)
    IN  IF r.exc # "" THEN StepFailed(WithExecPart(m1, r.p), r.exc)
        ELSE IF ~m2.is_halted /\ ~IsInt(pc_after) THEN StepFailed(m2, "TypeError")
        ELSE IF fetch_next /\ ~InList(m2.compiled_code, pc_after.n)
        THEN StepFailed(m2, "IndexError")
        ELSE StepReturn([m3 EXCEPT !.history = Append(m3.history, entry)],
                        ~m3.is_halted)

(* step after the halted and end-of-program tests: m1 has the instruction  *)
(* registers set to the line at the program counter                        *)
StepExecute(m1, instruction_line) ==
    StepFinish(m1, instruction_line,
               execute_instruction(ExecPart(m1), instruction_line.instruction,
                                   instruction_line.operands))

(* the end-of-program test of step, and the same with > for >=             *)
EndOfProgram_Strict(m) == m.program_counter.n > Len(m.compiled_code)

EndOfProgram(m) == m.program_counter.n >= Len(m.compiled_code)

step(m) ==
    IF m.is_halted THEN StepReturn(m, FALSE)
    ELSE IF m.compiled_code = <<>> THEN StepReturn([m EXCEPT !.is_halted = TRUE], FALSE)
    ELSE IF ~IsInt(m.program_counter) THEN StepRaise(m, "TypeError")
    ELSE IF EndOfProgram(m)
    THEN StepReturn([m EXCEPT !.is_halted = TRUE], FALSE)
    ELSE LET m0 == IF m.ram = <<>>
                   THEN [m EXCEPT !.ram = Zeros(Max(512, MemorySize))]
                   ELSE m
         IN  IF ~InList(m0.compiled_code, m0.program_counter.n)
             THEN StepRaise(m0, "IndexError")
             ELSE LET instruction_line ==
                          m0.compiled_code[ListIndex(m0.compiled_code,
                                                     m0.program_counter.n)]
                  IN  StepExecute(
                          [m0 EXCEPT !.current_command = LineCommand(instruction_line),
                                     !.instruction_register_asm =
                                         LineCommand(instruction_line),
                                     !.instruction_register =
                                         Opcode(instruction_line.instruction)],
                          instruction_line)

(***************************************************************************)
(* RISCProcessor.__init__ / reset and load_program.                        *)
(***************************************************************************)
NewMachine ==
    [registers |-> Zeros(8),
     program_counter |-> IntV(0),
     instruction_register |-> 0,
     instruction_register_asm |-> NoCommand,
     flags |-> NoFlags,
     current_command |-> NoCommand,
     is_halted |-> FALSE,
     cycles |-> 0,
     ram |-> Zeros(MemorySize),
     history |-> <<>>,
     compiled_code |-> <<>>]

(* load_program, and the same clearing the memory as reset does            *)
load_program_ClearsMemory(m, code) ==
    LET first == IF code # <<>> THEN LineCommand(code[1]) ELSE NoCommand
    IN  [m EXCEPT !.compiled_code = code,
                  !.program_counter = IntV(0),
                  !.is_halted = FALSE,
                  !.history = <<>>,
                  !.registers = Zeros(8),
                  !.flags = NoFlags,
                  !.cycles = 0,
                  !.ram = Zeros(MemorySize),
                  !.current_command = first,
                  !.instruction_register_asm = first,
                  !.instruction_register =
                      IF code # <<>> THEN Opcode(code[1].instruction) ELSE 0]

(* load_program without the clearing of the history                        *)
load_program_KeepsHistory(m, code) ==
    LET first == IF code # <<>> THEN LineCommand(code[1]) ELSE NoCommand
    IN  [m EXCEPT !.compiled_code = code,
                  !.program_counter = IntV(0),
                  !.is_halted = FALSE,
                  !.registers = Zeros(8),
                  !.flags = NoFlags,
                  !.cycles = 0,
                  !.current_command = first,
                  !.instruction_register_asm = first,
                  !.instruction_register =
                      IF code # <<>> THEN Opcode(code[1].instruction) ELSE 0]

load_program(m, code) ==
    LET first == IF code # <<>> THEN LineCommand(code[1]) ELSE NoCommand
    IN  [m EXCEPT !.compiled_code = code,
                  !.program_counter = IntV(0),
                  !.is_halted = FALSE,
                  !.history = <<>>,
                  !.registers = Zeros(8),
                  !.flags = NoFlags,
                  !.cycles = 0,
                  !.current_command = first,
                  !.instruction_register_asm = first,
                  !.instruction_register =
                      IF code # <<>> THEN Opcode(code[1].instruction) ELSE 0]

(***************************************************************************)
(* TaskManager: the two exercises (program text as parse_line reads it,    *)
(* test data).                                                             *)
(***************************************************************************)
Task1Program ==
    << SrcLine(<<>>, "", <<>>),
       SrcLine(<<>>, "", <<>>),
       SrcLine(<<>>, "", <<>>),
       SrcLine(<<>>, "", <<>>),
       SrcLine(<<>>, "", <<>>),
       SrcLine(<<>>, "", <<>>),
       SrcLine(<<>>, "LDI", <<<<"R", "0">>, <<"0">>>>),
       SrcLine(<<>>, "LDI", <<<<"R", "1">>, <<"1">>>>),
       SrcLine(<<>>, "LDI", <<<<"R", "2">>, <<"0", "x", "0", "1", "0", "0">>>>),
       SrcLine(<<>>, "", <<>>),
       SrcLine(<<>>, "", <<>>),
       SrcLine(<<>>, "LDR", <<<<"R", "3">>, <<"[", "0", "x", "0", "1", "0", "0", "]">>>>),
       SrcLine(<<>>, "", <<>>),
       SrcLine(<<>>, "", <<>>),
       SrcLine(<<"L", "O", "O", "P", "_", "S", "T", "A", "R", "T">>, "", <<>>),
       SrcLine(<<>>, "", <<>>),
       SrcLine(<<>>, "", <<>>),
       SrcLine(<<>>, "ADD", <<<<"R", "4">>, <<"R", "3">>, <<"1">>>>),
       SrcLine(<<>>, "CMP", <<<<"R", "1">>, <<"R", "4">>>>),
       SrcLine(<<>>, "JZ", <<<<"L", "O", "O", "P", "_", "E", "N", "D">>>>),
       SrcLine(<<>>, "", <<>>),
       SrcLine(<<>>, "", <<>>),
       SrcLine(<<>>, "ADD", <<<<"R", "5">>, <<"R", "2">>, <<"R", "1">>>>),
       SrcLine(<<>>, "LDRR", <<<<"R", "6">>, <<"[", "R", "5", "]">>>>),
       SrcLine(<<>>, "", <<>>),
       SrcLine(<<>>, "", <<>>),
       SrcLine(<<>>, "ADD", <<<<"R", "0">>, <<"R", "0">>, <<"R", "6">>>>),
       SrcLine(<<>>, "", <<>>),
       SrcLine(<<>>, "", <<>>),
       SrcLine(<<>>, "ADD", <<<<"R", "1">>, <<"R", "1">>, <<"1">>>>),
       SrcLine(<<>>, "", <<>>),
       SrcLine(<<>>, "JMP", <<<<"L", "O", "O", "P", "_", "S", "T", "A", "R", "T">>>>),
       SrcLine(<<>>, "", <<>>),
       SrcLine(<<"L", "O", "O", "P", "_", "E", "N", "D">>, "", <<>>),
       SrcLine(<<>>, "", <<>>),
       SrcLine(<<>>, "HALT", <<>>) >>

Task2Program ==
    << SrcLine(<<>>, "", <<>>),
       SrcLine(<<>>, "", <<>>),
       SrcLine(<<>>, "", <<>>),
       SrcLine(<<>>, "", <<>>),
       SrcLine(<<>>, "", <<>>),
       SrcLine(<<>>, "", <<>>),
       SrcLine(<<>>, "LDI", <<<<"R", "0">>, <<"0">>>>),
       SrcLine(<<>>, "LDI", <<<<"R", "1">>, <<"1">>>>),
       SrcLine(<<>>, "LDI", <<<<"R", "2">>, <<"0", "x", "0", "2", "0", "0">>>>),
       SrcLine(<<>>, "LDI", <<<<"R", "3">>, <<"0", "x", "0", "3", "0", "0">>>>),
       SrcLine(<<>>, "", <<>>),
       SrcLine(<<>>, "", <<>>),
       SrcLine(<<>>, "LDR", <<<<"R", "4">>, <<"[", "0", "x", "0", "2", "0", "0", "]">>>>),
       SrcLine(<<>>, "", <<>>),
       SrcLine(<<>>, "", <<>>),
       SrcLine(<<"L", "O", "O", "P", "_", "S", "T", "A", "R", "T">>, "", <<>>),
       SrcLine(<<>>, "", <<>>),
       SrcLine(<<>>, "", <<>>),
       SrcLine(<<>>, "ADD", <<<<"R", "5">>, <<"R", "4">>, <<"1">>>>),
       SrcLine(<<>>, "CMP", <<<<"R", "1">>, <<"R", "5">>>>),
       SrcLine(<<>>, "JZ", <<<<"L", "O", "O", "P", "_", "E", "N", "D">>>>),
       SrcLine(<<>>, "", <<>>),
       SrcLine(<<>>, "", <<>>),
       SrcLine(<<>>, "ADD", <<<<"R", "6">>, <<"R", "2">>, <<"R", "1">>>>),
       SrcLine(<<>>, "LDRR", <<<<"R", "7">>, <<"[", "R", "6", "]">>>>),
       SrcLine(<<>>, "", <<>>),
       SrcLine(<<>>, "", <<>>),
       SrcLine(<<>>, "ADD", <<<<"R", "6">>, <<"R", "3">>, <<"R", "1">>>>),
       SrcLine(<<>>, "LDRR", <<<<"R", "6">>, <<"[", "R", "6", "]">>>>),
       SrcLine(<<>>, "", <<>>),
       SrcLine(<<>>, "", <<>>),
       SrcLine(<<>>, "MUL", <<<<"R", "7">>, <<"R", "7">>, <<"R", "6">>>>),
       SrcLine(<<>>, "", <<>>),
       SrcLine(<<>>, "", <<>>),
       SrcLine(<<>>, "ADD", <<<<"R", "0">>, <<"R", "0">>, <<"R", "7">>>>),
       SrcLine(<<>>, "", <<>>),
       SrcLine(<<>>, "", <<>>),
       SrcLine(<<>>, "ADD", <<<<"R", "1">>, <<"R", "1">>, <<"1">>>>),
       SrcLine(<<>>, "", <<>>),
       SrcLine(<<>>, "JMP", <<<<"L", "O", "O", "P", "_", "S", "T", "A", "R", "T">>>>),
       SrcLine(<<>>, "", <<>>),
       SrcLine(<<"L", "O", "O", "P", "_", "E", "N", "D">>, "", <<>>),
       SrcLine(<<>>, "", <<>>),
       SrcLine(<<>>, "HALT", <<>>) >>

(***************************************************************************)
(* Source texts given to load_program and execute_program.                 *)
(***************************************************************************)
(* LDI R0, 5  /  STR R0, [2]  /  LDR R1, [2]  /  ADD R2, R0, R1  /  HALT *)
Program1 ==
    << SrcLine(<<>>, "LDI", <<<<"R", "0">>, <<"5">>>>),
       SrcLine(<<>>, "STR", <<<<"R", "0">>, <<"[", "2", "]">>>>),
       SrcLine(<<>>, "LDR", <<<<"R", "1">>, <<"[", "2", "]">>>>),
       SrcLine(<<>>, "ADD", <<<<"R", "2">>, <<"R", "0">>, <<"R", "1">>>>),
       SrcLine(<<>>, "HALT", <<>>) >>

(* LDI R1, 7  /  DIV R0, R1, [2]  /  HALT *)
Program2 ==
    << SrcLine(<<>>, "LDI", <<<<"R", "1">>, <<"7">>>>),
       SrcLine(<<>>, "DIV", <<<<"R", "0">>, <<"R", "1">>, <<"[", "2", "]">>>>),
       SrcLine(<<>>, "HALT", <<>>) >>

(* L: ADD R0, R0, 1  /  JMP L *)
Program3 ==
    << SrcLine(<<"L">>, "ADD", <<<<"R", "0">>, <<"R", "0">>, <<"1">>>>),
       SrcLine(<<>>, "JMP", <<<<"L">>>>) >>

(* SUB R0, R0, 1  /  JC END  /  NOP  /  END: *)
Program4 ==
    << SrcLine(<<>>, "SUB", <<<<"R", "0">>, <<"R", "0">>, <<"1">>>>),
       SrcLine(<<>>, "JC", <<<<"E", "N", "D">>>>),
       SrcLine(<<>>, "NOP", <<>>),
       SrcLine(<<"E", "N", "D">>, "", <<>>) >>

(* LDI R0, [3]  /  STR R0, 1  /  LDR R0, R1 *)
Program5 ==
    << SrcLine(<<>>, "LDI", <<<<"R", "0">>, <<"[", "3", "]">>>>),
       SrcLine(<<>>, "STR", <<<<"R", "0">>, <<"1">>>>),
       SrcLine(<<>>, "LDR", <<<<"R", "0">>, <<"R", "1">>>>) >>

(* NOP  /  ADD R0, R1 *)
Program6 ==
    << SrcLine(<<>>, "NOP", <<>>),
       SrcLine(<<>>, "ADD", <<<<"R", "0">>, <<"R", "1">>>>) >>

(* LDI R1, 70000  /  STR -1, R2  /  STR -1, [5]  /  JMP 10 *)
Program7 ==
    << SrcLine(<<>>, "LDI", <<<<"R", "1">>, <<"7", "0", "0", "0", "0">>>>),
       SrcLine(<<>>, "STR", <<<<"-", "1">>, <<"R", "2">>>>),
       SrcLine(<<>>, "STR", <<<<"-", "1">>, <<"[", "5", "]">>>>),
       SrcLine(<<>>, "JMP", <<<<"1", "0">>>>) >>

(* CMP R0, R1  /  JZ foo  /  HALT *)
Program8 ==
    << SrcLine(<<>>, "CMP", <<<<"R", "0">>, <<"R", "1">>>>),
       SrcLine(<<>>, "JZ", <<<<"f", "o", "o">>>>),
       SrcLine(<<>>, "HALT", <<>>) >>

(* MOV R3, 2  /  DIV R3, R3, R4  /  HALT *)
Program9 ==
    << SrcLine(<<>>, "MOV", <<<<"R", "3">>, <<"2">>>>),
       SrcLine(<<>>, "DIV", <<<<"R", "3">>, <<"R", "3">>, <<"R", "4">>>>),
       SrcLine(<<>>, "HALT", <<>>) >>

(* FOO R1 *)
Program10 ==
    << SrcLine(<<>>, "FOO", <<<<"R", "1">>>>) >>

(* LDI 10  /  STA [0]  /  LDI 20  /  ADD [0]  /  HALT *)
Program11 ==
    << SrcLine(<<>>, "LDI", <<<<"1", "0">>>>),
       SrcLine(<<>>, "STA", <<<<"[", "0", "]">>>>),
       SrcLine(<<>>, "LDI", <<<<"2", "0">>>>),
       SrcLine(<<>>, "ADD", <<<<"[", "0", "]">>>>),
       SrcLine(<<>>, "HALT", <<>>) >>

(* LDI 5  /  STA [0x10]  /  LDA [0x10]  /  HALT *)
Program12 ==
    << SrcLine(<<>>, "LDI", <<<<"5">>>>),
       SrcLine(<<>>, "STA", <<<<"[", "0", "x", "1", "0", "]">>>>),
       SrcLine(<<>>, "LDA", <<<<"[", "0", "x", "1", "0", "]">>>>),
       SrcLine(<<>>, "HALT", <<>>) >>

Programs ==
    << Program1, Program2, Program3, Program4, Program5, Program6,
       Program7, Program8, Program9, Program10, Program11, Program12 >>

Task1Data == <<7, 10, 20, 30, 40, 50, 60, 70>>

Task2Data ==
    <<10, 2, 3, 1, 4, 5, 2, 3, 1, 4, 2, 10, 1, 2, 3, 1, 2, 3, 1, 2, 3, 1>>

TaskIds == {1, 2}

TaskProgram(task_id) == IF task_id = 1 THEN Task1Program ELSE Task2Program

(* test_data[a:b] of Python, 0 <= a                                        *)
Slice(list, a, b) ==
    LET hi == IF b < Len(list) THEN b ELSE Len(list)
    IN  IF a >= hi THEN <<>> ELSE SubSeq(list, a + 1, hi)

(* [base] = size and [base + 1 + i] = elements[i], each cell only when it  *)
(* lies inside the list                                                    *)
(* the array written one cell too low, its first element over the size     *)
WriteArray_OverSize(ram, base, size, elements) ==
    [a \in 1..Len(ram) |->
        IF a >= base + 1 /\ a < base + 1 + Len(elements)
        THEN Mask16(elements[a - base])
        ELSE ram[a]]

WriteArray(ram, base, size, elements) ==
    [a \in 1..Len(ram) |->
        IF a = base + 1 THEN Mask16(size)
        ELSE IF a > base + 1 /\ a <= base + 1 + Len(elements)
        THEN Mask16(elements[a - base - 1])
        ELSE ram[a]]

(* ram.extend up to required_size, and the same cutting a longer ram        *)
ExtendTo_Exact(ram, required_size) ==
    IF Len(ram) < required_size THEN ram \o Zeros(required_size - Len(ram))
    ELSE SubSeq(ram, 1, required_size)

ExtendTo(ram, required_size) ==
    IF Len(ram) < required_size THEN ram \o Zeros(required_size - Len(ram)) ELSE ram

setup_task_data(ram, task_id) ==
    LET ram0 == IF ram = <<>> THEN Zeros(MemorySize) ELSE ram
    IN  IF task_id = 1
        THEN LET size == Task1Data[1]
                 elements == Slice(Task1Data, 1, 1 + size)
             IN  WriteArray(ExtendTo(ram0, 256 + Len(elements) + 2), 256, size, elements)
        ELSE LET size_a == Task2Data[1]
                 a_vals == Slice(Task2Data, 1, 1 + size_a)
                 size_b == Task2Data[2 + size_a]
                 b_vals == Slice(Task2Data, 2 + size_a, 2 + size_a + size_b)
             IN  WriteArray(WriteArray(ExtendTo(ram0, 778 + 2), 512, size_a, a_vals),
                            768, size_b, b_vals)

(***************************************************************************)
(* RISCEmulator.                                                           *)
(***************************************************************************)
(* compile_code: the machine code assemble returns for a source text       *)
(* (assemble raises for no text), for the texts above                      *)
CompiledPrograms == [i \in 1..Len(Programs) |-> assemble(Programs[i]).machine_code]

CompiledTasks == [task_id \in TaskIds |-> assemble(TaskProgram(task_id)).machine_code]

(* load_task, from the reset of the processor state to the task data; the  *)
(* check that follows setup_task_data in load_task finds the data it has   *)
(* just written and changes nothing                                        *)
load_task(m, task_id) ==
    LET saved_ram == m.ram
        saved_ram_size == IF saved_ram # <<>> THEN Len(saved_ram) ELSE MemorySize
        ram1 == IF saved_ram # <<>> /\ Len(saved_ram) >= 257 THEN saved_ram
                ELSE Zeros(Max(saved_ram_size, 512))
        m1 == [NewMachine EXCEPT !.ram = ram1, !.compiled_code = m.compiled_code]
        m2 == load_program(m1, CompiledTasks[task_id])
    IN  [m2 EXCEPT !.ram = setup_task_data(m2.ram, task_id)]

(* execute_step, and the same answering "continues" for a halted          *)
(* processor                                                               *)
execute_step_HaltedContinues(m) ==
    IF m.is_halted THEN StepReturn(m, TRUE) ELSE step(m)

execute_step(m) == IF m.is_halted THEN StepReturn(m, FALSE) ELSE step(m)

(* the condition of the while loop of execute_program, and the same with  *)
(* the budget test off by one                                              *)
LoopContinues_OffByOne(m, steps, max_steps) == steps <= max_steps /\ ~m.is_halted

LoopContinues(m, steps, max_steps) == steps < max_steps /\ ~m.is_halted

(* the loop of execute_program: steps counts the calls of step that        *)
(* returned                                                                *)
RECURSIVE RunLoop(_, _, _)

(* the rest of the loop after a call of step has left r                    *)
LoopAfterStep(r, steps, max_steps) ==
    IF r.raised # "" THEN [m |-> r.m, steps |-> steps, raised |-> r.raised]
    ELSE RunLoop(r.m, steps + 1, max_steps)

RunLoop(m, steps, max_steps) ==
    IF LoopContinues(m, steps, max_steps)
    THEN LoopAfterStep(step(m), steps, max_steps)
    ELSE [m |-> m, steps |-> steps, raised |-> ""]

(***************************************************************************)
(* State: the fields of RISCProcessor.processor and .memory, the loaded    *)
(* program, RISCEmulator.current_task (0 for None), the position of a      *)
(* call of execute_program that is in progress (run, used by SpecRun), and *)
(* two observations: step_calls, the number of RISCProcessor.step calls    *)
(* since the program was loaded, and lastCall, the last operation with     *)
(* what it returned.                                                       *)
(***************************************************************************)
VARIABLES registers, program_counter, instruction_register,
          instruction_register_asm, flags, current_command, is_halted,
          cycles, ram, history, compiled_code, current_task, run,
          step_calls, lastCall

machine == <<registers, program_counter, instruction_register,
             instruction_register_asm, flags, current_command, is_halted,
             cycles, ram, history, compiled_code>>

vars == <<machine, current_task, run, step_calls, lastCall>>

Machine ==
    [registers |-> registers,
     program_counter |-> program_counter,
     instruction_register |-> instruction_register,
     instruction_register_asm |-> instruction_register_asm,
     flags |-> flags,
     current_command |-> current_command,
     is_halted |-> is_halted,
     cycles |-> cycles,
     ram |-> ram,
     history |-> history,
     compiled_code |-> compiled_code]

Becomes(m) ==
    /\ registers' = m.registers
    /\ program_counter' = m.program_counter
    /\ instruction_register' = m.instruction_register
    /\ instruction_register_asm' = m.instruction_register_asm
    /\ flags' = m.flags
    /\ current_command' = m.current_command
    /\ is_halted' = m.is_halted
    /\ cycles' = m.cycles
    /\ ram' = m.ram
    /\ history' = m.history
    /\ compiled_code' = m.compiled_code

(* An observed call: the operation, whether it was given a source text,    *)
(* whether the processor was halted when it was called, and what it        *)
(* returned: success, continues, the exception step caught, steps_executed *)
(* and the budget, with calls the number of times it called step.          *)
Call(op, source, success, continues, exc, steps, calls, max_steps) ==
    [op |-> op, source |-> source, was_halted |-> is_halted, success |-> success,
     continues |-> continues, exc |-> exc, steps |-> steps, calls |-> calls,
     max_steps |-> max_steps]

Loaded(op) == Call(op, TRUE, TRUE, FALSE, "", 0, 0, 0)

NotRunning == [active |-> FALSE, steps |-> 0, max_steps |-> 0, first_call |-> 0]

Init ==
    /\ registers = NewMachine.registers
    /\ program_counter = NewMachine.program_counter
    /\ instruction_register = NewMachine.instruction_register
    /\ instruction_register_asm = NewMachine.instruction_register_asm
    /\ flags = NewMachine.flags
    /\ current_command = NewMachine.current_command
    /\ is_halted = NewMachine.is_halted
    /\ cycles = NewMachine.cycles
    /\ ram = NewMachine.ram
    /\ history = NewMachine.history
    /\ compiled_code = NewMachine.compiled_code
    /\ current_task = 0
    /\ run = NotRunning
    /\ step_calls = 0
    /\ lastCall = [op |-> "init", source |-> FALSE, was_halted |-> FALSE,
                   success |-> TRUE, continues |-> FALSE, exc |-> "", steps |-> 0,
                   calls |-> 0, max_steps |-> 0]

(* RISCEmulator.reset                                                      *)
Reset ==
    /\ Becomes(NewMachine)
    /\ current_task' = 0
    /\ step_calls' = 0
    /\ lastCall' = Call("reset", FALSE, TRUE, FALSE, "", 0, 0, 0)
    /\ UNCHANGED run

(* RISCEmulator.load_program(source_code)                                  *)
LoadProgram ==
    \E i \in 1..Len(Programs) :
        /\ Becomes(load_program(Machine, CompiledPrograms[i]))
        /\ step_calls' = 0
        /\ lastCall' = Loaded("load_program")
        /\ UNCHANGED <<current_task, run>>

(* RISCEmulator.load_task(task_id), for the known ids and for one that is  *)
(* not known                                                               *)
LoadTask ==
    \E task_id \in TaskIds \cup {3} :
        IF task_id \in TaskIds
        THEN /\ Becomes(load_task(Machine, task_id))
             /\ current_task' = task_id
             /\ step_calls' = 0
             /\ lastCall' = Loaded("load_task")
             /\ UNCHANGED run
        ELSE /\ lastCall' = Call("load_task", FALSE, FALSE, FALSE, "", 0, 0, 0)
             /\ UNCHANGED <<machine, current_task, run, step_calls>>

(* RISCEmulator.execute_step                                               *)
ExecuteStep ==
    /\ is_halted \/ cycles < MaxCycles
    /\ LET Returned(r) ==
               /\ Becomes(r.m)
               /\ lastCall' = Call("step", FALSE, r.raised = "", r.continues, r.exc,
                                   0, IF is_halted THEN 0 ELSE 1, 0)
       IN  Returned(execute_step(Machine))
    /\ step_calls' = step_calls + (IF is_halted THEN 0 ELSE 1)
    /\ UNCHANGED <<current_task, run>>

(* RISCEmulator.execute_program(source_code, max_steps); i = 0 stands for  *)
(* a call without source_code, which is explored with every budget up to   *)
(* MaxRunSteps; a call with a source text is explored with the largest     *)
ExecuteProgram ==
    \E i \in 0..Len(Programs), max_steps \in 0..MaxRunSteps :
        LET m0 == IF i = 0 THEN Machine
                  ELSE load_program(Machine, CompiledPrograms[i])
            Calls(r) == r.steps + (IF r.raised # "" THEN 1 ELSE 0)
            Returned(r) ==
                /\ Becomes(r.m)
                /\ step_calls' = (IF i = 0 THEN step_calls ELSE 0) + Calls(r)
                /\ lastCall' = Call("run", i # 0, r.raised = "", FALSE, "", r.steps,
                                    Calls(r), max_steps)
        IN  /\ i # 0 => max_steps = MaxRunSteps
            /\ m0.cycles + max_steps <= MaxCycles
            /\ Returned(RunLoop(m0, 0, max_steps))
            /\ UNCHANGED <<current_task, run>>

Next ==
    \/ Reset
    \/ LoadProgram
    \/ LoadTask
    \/ ExecuteStep
    \/ ExecuteProgram

Spec == Init /\ [][Next]_vars

(***************************************************************************)
(* execute_program with its loop taken one iteration at a time: RunStart   *)
(* is the call (without source_code), RunIteration one pass of the while   *)
(* loop, RunReturn the exit of the loop and the return; run.first_call is  *)
(* the value of step_calls when the call began.  The program is            *)
(* single-threaded, so no other operation runs while the call is active,   *)
(* and a loop that can take an iteration does take it.                     *)
(***************************************************************************)
RunStart ==
    \E max_steps \in 0..MaxRunSteps :
        /\ ~run.active
        /\ cycles + max_steps <= MaxCycles
        /\ run' = [active |-> TRUE, steps |-> 0, max_steps |-> max_steps,
                   first_call |-> step_calls]
        /\ UNCHANGED <<machine, current_task, step_calls, lastCall>>

CanIterate == run.active /\ LoopContinues(Machine, run.steps, run.max_steps)

RunIteration ==
    /\ CanIterate
    /\ LET Stepped(r) ==
               /\ Becomes(r.m)
               /\ IF r.raised # ""
                  THEN /\ run' = [run EXCEPT !.active = FALSE]
                       /\ lastCall' = Call("run", FALSE, FALSE, FALSE, "", run.steps,
                                           step_calls + 1 - run.first_call,
                                           run.max_steps)
                  ELSE /\ run' = [run EXCEPT !.steps = run.steps + 1]
                       /\ UNCHANGED lastCall
       IN  Stepped(step(Machine))
    /\ step_calls' = step_calls + 1
    /\ UNCHANGED current_task

RunReturn ==
    /\ run.active
    /\ ~CanIterate
    /\ run' = [run EXCEPT !.active = FALSE]
    /\ lastCall' = Call("run", FALSE, TRUE, FALSE, "", run.steps,
                        step_calls - run.first_call, run.max_steps)
    /\ UNCHANGED <<machine, current_task, step_calls>>

LoadProgramIdle == ~run.active /\ LoadProgram

NextRun ==
    \/ LoadProgramIdle
    \/ RunStart
    \/ RunIteration
    \/ RunReturn

(* Weak fairness of RunIteration, WF_vars(RunIteration), with its enabling *)
(* condition written out: step returns a result for every machine and an   *)
(* iteration always changes step_calls, so <<RunIteration>>_vars is        *)
(* enabled exactly when CanIterate holds.                                  *)
IterationFairness == []<>(~CanIterate) \/ []<><<RunIteration>>_vars

SpecRun ==
    /\ Init
    /\ [][NextRun]_vars
    /\ IterationFairness
    /\ WF_vars(RunReturn)

(***************************************************************************)
(* The dict returned by get_state, which execute_step and execute_program  *)
(* return as "state".  A part of it is either an object built by get_state *)
(* or the processor's own object: the register list, the flag dict and the *)
(* memory list are built by comprehensions and literals, the history list  *)
(* and each entry dict are new, and so are the register lists and flag     *)
(* dicts of an entry; every other field of an entry is assigned as it is   *)
(* (history_entry[key] = value), which for "operands" is the list held by  *)
(* the processor's entry, and "machine_code" is self.compiled_code itself. *)
(***************************************************************************)
SnapshotParts ==
    {"registers", "flags", "ram", "history", "history_entry", "history_registers",
     "history_flags", "history_operands", "machine_code"}

SharedWithEngine(part) == part \in {"history_operands", "machine_code"}

(* RISCEmulator.get_state; the memory of the model is never empty, so the  *)
(* call assigns nothing                                                    *)
GetState ==
    /\ lastCall' = Call("get_state", FALSE, TRUE, FALSE, "", 0, 0, 0)
    /\ UNCHANGED <<machine, current_task, run, step_calls>>

(* The caller changes a part of the last state it was given, by an         *)
(* assignment to the first element of a list (state["machine_code"][0] =   *)
(* "HALT", entry["operands"].clear() on the first entry, ...): a part that *)
(* is the processor's own object changes in the processor as well.  The    *)
(* state the caller holds was returned since the last load or reset, so    *)
(* its shared parts are still the objects the processor uses.              *)
MutateSnapshot ==
    \E part \in SnapshotParts :
        /\ lastCall.op \in {"get_state", "step", "run", "mutate_snapshot"}
        /\ part = "machine_code" => compiled_code # <<>>
        /\ part \in {"history_entry", "history_registers", "history_flags",
                     "history_operands"} => history # <<>>
        /\ IF ~SharedWithEngine(part) THEN UNCHANGED machine
           ELSE IF part = "machine_code"
           THEN Becomes([Machine EXCEPT !.compiled_code[1] = CodeLine("HALT", <<>>)])
           ELSE Becomes([Machine EXCEPT !.history[1].operands = <<>>])
        /\ lastCall' = Call("mutate_snapshot", FALSE, TRUE, FALSE, "", 0, 0, 0)
        /\ UNCHANGED <<current_task, run, step_calls>>

NextSnapshot ==
    \/ LoadProgram
    \/ ExecuteStep
    \/ GetState
    \/ MutateSnapshot

SpecSnapshot == Init /\ [][NextSnapshot]_vars

(***************************************************************************)
(* RISCAssembler on source text.  A line of text is the sequence of its    *)
(* tokens, a token being ";", ":" or a maximal run of other characters     *)
(* between blanks and commas.  parse_line returns nothing for an empty     *)
(* line and for one that starts with ";", cuts the line at its first ";",  *)
(* takes what stands before the first ":" as the label, and takes the      *)
(* first token of the rest, in upper case, as the mnemonic.                *)
(***************************************************************************)
MaxLines == 3

parse_line(line) ==
    LET First(tokens, t) ==
            CHOOSE i \in 1..Len(tokens) :
                tokens[i] = t /\ \A j \in 1..(i - 1) : tokens[j] # t
        Has(tokens, t) == \E i \in 1..Len(tokens) : tokens[i] = t
        UpperText(token) ==
            CASE Upper(token) = <<"N", "O", "P">> -> "NOP"
              [] token \in {<<"j", "m", "p">>, <<"J", "M", "P">>} -> "JMP"
              [] OTHER -> "?"
        Parts(label, parts) ==
            IF parts = <<>> THEN SrcLine(label, "", <<>>)
            ELSE SrcLine(label, UpperText(parts[1]), Tail(parts))
        Labelled(code) ==
            IF Has(code, <<":">>)
            THEN Parts(IF First(code, <<":">>) = 1 THEN <<>> ELSE code[1],
                       Rest(code, First(code, <<":">>)))
            ELSE Parts(<<>>, code)
    IN  IF line = <<>> \/ line[1] = <<";">> THEN SrcLine(<<>>, "", <<>>)
        ELSE IF Has(line, <<";">>)
        THEN Labelled(SubSeq(line, 1, First(line, <<";">>) - 1))
        ELSE Labelled(line)

(* the lines a source text is made of: an empty line, the comment          *)
(* "; A:", the bare label "A:", "A: NOP ; x", "jmp A", and "5: jmp 5",     *)
(* whose label is spelled like its operand                                 *)
LineKinds ==
    { <<>>,
      << <<";">>, <<"A">>, <<":">> >>,
      << <<"A">>, <<":">> >>,
      << <<"A">>, <<":">>, <<"N", "O", "P">>, <<";">>, <<"x">> >>,
      << <<"j", "m", "p">>, <<"A">> >>,
      << <<"5">>, <<":">>, <<"j", "m", "p">>, <<"5">> >> }

Sources == UNION {[1..n -> LineKinds] : n \in 0..MaxLines}

(* the lines of the call before kept in front of those of this call        *)
ParseLines_KeepsLines(source_code) ==
    LET kept == IF lastCall.op = "compile_code" THEN lastCall.source_code ELSE <<>>
    IN  [i \in 1..(Len(kept) + Len(source_code)) |->
            parse_line((kept \o source_code)[i])]

ParseLines(source_code) ==
    [i \in 1..Len(source_code) |-> parse_line(source_code[i])]

(* RISCEmulator.compile_code(source_code); the call is recorded with its   *)
(* argument and with the machine code and the labels it returned, and      *)
(* first is either empty or holds one earlier call to compare it with      *)
Compiled(source_code, r, first) ==
    [op |-> "compile_code", source |-> TRUE, was_halted |-> is_halted,
     success |-> TRUE, continues |-> FALSE, exc |-> "", steps |-> 0, calls |-> 0,
     max_steps |-> 0, source_code |-> source_code,
     machine_code |-> r.machine_code, labels |-> r.labels, first |-> first]

CompileCode ==
    \E source_code \in Sources :
        /\ lastCall' = Compiled(source_code, assemble(ParseLines(source_code)), <<>>)
        /\ UNCHANGED <<machine, current_task, run, step_calls>>

SpecAssemble == Init /\ [][CompileCode]_vars

(* compile_code called again and again on one assembler, the first call of *)
(* all being remembered with what it returned and with whether a call on   *)
(* another source text has followed it; the texts are those of fewer than  *)
(* MaxLines lines none of which parse_line skips                           *)
RecompiledSources ==
    {s \in Sources :
        /\ Len(s) < MaxLines
        /\ \A i \in 1..Len(s) : parse_line(s[i]) # SrcLine(<<>>, "", <<>>)}

CompileCodeAgain ==
    \E source_code \in RecompiledSources :
        LET Returned(r) ==
                lastCall' =
                    Compiled(source_code, r,
                        IF lastCall.op = "compile_code"
                        THEN <<[lastCall.first[1] EXCEPT !.others =
                                   @ \/ source_code # lastCall.first[1].source_code]>>
                        ELSE <<[source_code |-> source_code,
                                machine_code |-> r.machine_code,
                                labels |-> r.labels, others |-> FALSE]>>)
        IN  /\ Returned(assemble(ParseLines(source_code)))
            /\ UNCHANGED <<machine, current_task, run, step_calls>>

SpecReassemble == Init /\ [][CompileCodeAgain]_vars

(***************************************************************************)
(* RISCProcessor._encode_instruction and _decode_instruction: the packing  *)
(* of opcode, rd, rs1, rs2 and the addressing-mode code into a word and    *)
(* its unpacking (the *_bits strings of InstructionField, which repeat the *)
(* fields in binary, are left out).  x << n is x * 2^n and (x >> n) & m    *)
(* is (x \div 2^n) % (m + 1); the fields encoded here are disjoint bit     *)
(* ranges, so | is +.                                                      *)
(***************************************************************************)
_addressing_mode_to_code(mode) ==
    CASE mode = "immediate" -> 0
      [] mode = "direct" -> 1
      [] mode = "register" -> 2
      [] mode = "indirect_register" -> 3
      [] OTHER -> 0

_encode_instruction(opcode, rd, rs1, rs2, immediate, addressing_mode) ==
    IF addressing_mode = "immediate" /\ immediate # 0
    THEN immediate * 65536 + opcode * 4096 + rd * 512 + rs1 * 64 + rs2 * 8
             + _addressing_mode_to_code(addressing_mode)
    ELSE opcode * 4096 + rd * 512 + rs1 * 64 + rs2 * 8
             + _addressing_mode_to_code(addressing_mode)

_decode_instruction(instruction) ==
    LET addr_mode_code == instruction % 8
    IN  [immediate |-> IF instruction > 65535 THEN instruction \div 65536 ELSE 0,
         opcode |-> (instruction \div 4096) % 16,
         rd |-> (instruction \div 512) % 8,
         rs1 |-> (instruction \div 64) % 8,
         rs2 |-> (instruction \div 8) % 8,
         addressing_mode |->
             CASE addr_mode_code = 0 -> "immediate"
               [] addr_mode_code = 1 -> "direct"
               [] addr_mode_code = 2 -> "register"
               [] addr_mode_code = 3 -> "indirect_register"
               [] OTHER -> "register"]

(* the 16-bit words with the least or the greatest value in each register  *)
(* field, three opcodes and every addressing-mode code                     *)
Words ==
    {opcode * 4096 + rd * 512 + rs1 * 64 + rs2 * 8 + code :
        opcode \in {0, 1, 15}, rd \in {0, 7}, rs1 \in {0, 7}, rs2 \in {0, 7},
        code \in 0..7}

(* a word decoded and its fields encoded again                             *)
DecodeInstruction ==
    \E instruction \in Words :
        LET Decoded(f) ==
                lastCall' =
                    [op |-> "_decode_instruction", source |-> FALSE,
                     was_halted |-> is_halted, success |-> TRUE, continues |-> FALSE,
                     exc |-> "", steps |-> 0, calls |-> 0, max_steps |-> 0,
                     instruction |-> instruction, fields |-> f,
                     encoded |-> _encode_instruction(f.opcode, f.rd, f.rs1, f.rs2,
                                                     f.immediate, f.addressing_mode)]
        IN  /\ Decoded(_decode_instruction(instruction))
            /\ UNCHANGED <<machine, current_task, run, step_calls>>

SpecEncode == Init /\ [][DecodeInstruction]_vars

(***************************************************************************)
(* The exercises run as the emulator's callers run them: load_task, then   *)
(* execute_program with its default budget, taken one iteration at a time, *)
(* then verify_current_task.  No operation begins while a run is active.   *)
(***************************************************************************)
DefaultMaxSteps == 1000

TaskRunStart ==
    /\ ~run.active
    /\ run' = [active |-> TRUE, steps |-> 0, max_steps |-> DefaultMaxSteps,
               first_call |-> step_calls]
    /\ UNCHANGED <<machine, current_task, step_calls, lastCall>>

(* TaskManager.verify_task_result for a known task: the expected value is  *)
(* computed from the test data, the actual one is R0                       *)
verify_task_result(m, task_id) ==
    LET RECURSIVE Sum(_)
        Sum(s) == IF s = <<>> THEN 0 ELSE s[1] + Sum(Tail(s))
        Min(a, b) == IF a <= b THEN a ELSE b
        size_a == Task2Data[1]
        a_vals == Slice(Task2Data, 1, 1 + size_a)
        size_b == Task2Data[1 + size_a + 1]
        b_vals == Slice(Task2Data, 2 + size_a, 2 + size_a + size_b)
        expected ==
            IF task_id = 1
            THEN Sum(Slice(Task1Data, 1, 1 + Task1Data[1]))
            ELSE Sum([i \in 1..Min(Len(a_vals), Len(b_vals)) |-> a_vals[i] * b_vals[i]])
    IN  [task_id |-> task_id, success |-> expected = m.registers[1],
         expected |-> expected, actual |-> m.registers[1]]

(* verify_current_task that writes the value it read back into R0 as 0     *)
Verify_ClearsResult ==
    /\ ~run.active
    /\ lastCall' =
           [op |-> "verify", source |-> FALSE, was_halted |-> is_halted,
            success |-> current_task # 0, continues |-> FALSE, exc |-> "",
            steps |-> 0, calls |-> 0, max_steps |-> 0,
            error |-> IF current_task = 0 THEN "No task loaded" ELSE "",
            verification |-> <<>>]
    /\ registers' = [registers EXCEPT ![1] = 0]
    /\ UNCHANGED <<program_counter, instruction_register, instruction_register_asm,
                   flags, current_command, is_halted, cycles, ram, history,
                   compiled_code, current_task, run, step_calls>>

(* RISCEmulator.verify_current_task: what it returns is recorded with the  *)
(* call, error being "" and verification holding one result when there is  *)
(* one                                                                     *)
Verify ==
    /\ ~run.active
    /\ lastCall' =
           [op |-> "verify", source |-> FALSE, was_halted |-> is_halted,
            success |-> current_task # 0, continues |-> FALSE, exc |-> "",
            steps |-> 0, calls |-> 0, max_steps |-> 0,
            error |-> IF current_task = 0 THEN "No task loaded" ELSE "",
            verification |->
                IF current_task = 0 THEN <<>>
                ELSE <<verify_task_result(Machine, current_task)>>]
    /\ UNCHANGED <<machine, current_task, run, step_calls>>

NextTask ==
    \/ ~run.active /\ Reset
    \/ ~run.active /\ LoadTask
    \/ TaskRunStart
    \/ RunIteration
    \/ RunReturn
    \/ Verify

SpecTask == Init /\ [][NextTask]_vars

(***************************************************************************)
(* Instruction model.  A processor constructed and given one program of a  *)
(* family by load_program, then stepped.  A program of the family loads    *)
(* two registers, stores the second in cell 1, executes one ALU            *)
(* instruction or CMP on them, with the second operand written as a        *)
(* register, a decimal, a negative decimal, a hexadecimal or a bracketed   *)
(* token, and ends with a jump whose target is a literal or a cell, with   *)
(* one of JV, JNV, JN and JNN, or with NOP:                                *)
(*   LDI R1, a / LDI R2, b / STR R2, [1] / op R0, R1, x / Jcc target       *)
(* The other programs are "JMP t / NOP / NOP" with t a negative literal    *)
(* inside or outside the program, a name no label defines, a register and  *)
(* a cell, and "ADD 9, R0, R0 / NOP / NOP", whose destination is no        *)
(* register.                                                               *)
(***************************************************************************)
InstructionPrograms ==
    LET Reg(n) == <<"R", NatStr(n)[1]>>
        Cell1 == <<"[", "1", "]">>
        Second(b) == {Reg(2), PyStr(b), <<"-", "1">>, <<"0", "x", "1">>, Cell1}
        OpLines(b) ==
            {SrcLine(<<>>, op, <<Reg(0), Reg(1), x>>) :
                 op \in {"ADD", "SUB", "MUL", "DIV", "AND", "OR", "XOR"}, x \in Second(b)}
            \cup {SrcLine(<<>>, "NOT", <<Reg(0), Reg(1)>>)}
            \cup {SrcLine(<<>>, "CMP", <<Reg(1), x>>) : x \in Second(b)}
        JumpLines ==
            {SrcLine(<<>>, j, <<t>>) :
                 j \in {"JMP", "JZ", "JNZ", "JC", "JNC"}, t \in {<<"0">>, Cell1}}
            \cup {SrcLine(<<>>, j, <<<<"0">>>>) : j \in {"JV", "JNV", "JN", "JNN"}}
            \cup {SrcLine(<<>>, "NOP", <<>>)}
        Family(a, b) ==
            {<< SrcLine(<<>>, "LDI", <<Reg(1), PyStr(a)>>),
                SrcLine(<<>>, "LDI", <<Reg(2), PyStr(b)>>),
                SrcLine(<<>>, "STR", <<Reg(2), Cell1>>),
                o, j >> : o \in OpLines(b), j \in JumpLines}
        Stray ==
            {<< SrcLine(<<>>, "JMP", <<t>>), SrcLine(<<>>, "NOP", <<>>),
                SrcLine(<<>>, "NOP", <<>>) >> :
                 t \in {<<"-", "1">>, <<"-", "5">>, <<"f", "o", "o">>, Reg(3),
                        <<"[", "3", "]">>}}
            \cup {<< SrcLine(<<>>, "ADD", <<<<"9">>, Reg(0), Reg(0)>>),
                     SrcLine(<<>>, "NOP", <<>>), SrcLine(<<>>, "NOP", <<>>) >>}
    IN  UNION {Family(a, b) : a \in {0, 1, 65535}, b \in {0, 1, 32768}} \cup Stray

InitInstruction ==
    \E source_code \in InstructionPrograms :
        LET Constructed(m) ==
                /\ registers = m.registers
                /\ program_counter = m.program_counter
                /\ instruction_register = m.instruction_register
                /\ instruction_register_asm = m.instruction_register_asm
                /\ flags = m.flags
                /\ current_command = m.current_command
                /\ is_halted = m.is_halted
                /\ cycles = m.cycles
                /\ ram = m.ram
                /\ history = m.history
                /\ compiled_code = m.compiled_code
        IN  /\ Constructed(load_program(NewMachine, assemble(source_code).machine_code))
            /\ current_task = 0
            /\ run = NotRunning
            /\ step_calls = 0
            /\ lastCall = Loaded("load_program")

SpecInstruction == InitInstruction /\ [][ExecuteStep]_vars

(***************************************************************************)
(* Calls of the processor's and the assembler's own functions on a         *)
(* constructed emulator, with arguments that no instruction need ever      *)
(* pass.                                                                   *)
(***************************************************************************)
(* RISCProcessor.update_flags(result, operation)                           *)
UpdateFlags ==
    LET Near(c) == (c - 3)..(c + 3)
    IN  \E result \in Near(0) \cup Near(32767) \cup Near(-32768)
                        \cup Near(65535) \cup Near(-65535),
           operation \in {"", "add", "sub", "mul"} :
            /\ flags' = update_flags(ExecPart(Machine), result, operation).flags
            /\ lastCall' = [op |-> "update_flags", result |-> result,
                            operation |-> operation]
            /\ UNCHANGED <<registers, program_counter, instruction_register,
                           instruction_register_asm, current_command, is_halted,
                           cycles, ram, history, compiled_code, current_task, run,
                           step_calls>>

(* RISCProcessor._parse_operand(operand_str), the parser that             *)
(* execute_instruction calls, on "[1]", "[0x1]", "[R1]", "[zz]", "0x1",    *)
(* "0X1", "5", "-5", "R1" and "foo"                                        *)
ParseOperand ==
    \E operand_str \in
            { <<"[", "1", "]">>, <<"[", "0", "x", "1", "]">>, <<"[", "R", "1", "]">>,
              <<"[", "z", "z", "]">>, <<"0", "x", "1">>, <<"0", "X", "1">>, <<"5">>,
              <<"-", "5">>, <<"R", "1">>, <<"f", "o", "o">> } :
        /\ lastCall' = [op |-> "_parse_operand", operand_str |-> operand_str,
                        returned |-> _parse_operand(operand_str)]
        /\ UNCHANGED <<machine, current_task, run, step_calls>>

(* RISCAssembler.instructions, the assembler's own table                   *)
AssemblerInstructions ==
    [m \in {"ADD", "SUB", "MUL", "DIV", "AND", "OR", "XOR", "NOT", "LDA", "STA",
            "LDI", "CMP", "JMP", "JZ", "JNZ", "JC", "JNC", "JV", "JNV", "JN", "JNN",
            "HALT", "NOP"} |->
        CASE m = "ADD" -> 1 [] m = "SUB" -> 2 [] m = "MUL" -> 3 [] m = "DIV" -> 4
          [] m = "AND" -> 5 [] m = "OR" -> 6 [] m = "XOR" -> 7 [] m = "NOT" -> 8
          [] m = "LDA" -> 16 [] m = "STA" -> 17 [] m = "LDI" -> 18
          [] m = "CMP" -> 32 [] m = "JMP" -> 33 [] m = "JZ" -> 34
          [] m = "JNZ" -> 35 [] m = "JC" -> 36 [] m = "JNC" -> 37
          [] m = "JV" -> 38 [] m = "JNV" -> 39 [] m = "JN" -> 40
          [] m = "JNN" -> 41 [] m = "HALT" -> 255 [] m = "NOP" -> 0]

(* RISCAssembler.get_instruction_info(instruction) for a mnemonic given in *)
(* upper case: the error payload, or the description with the opcode and   *)
(* the names of the operands                                               *)
get_instruction_info(instruction) ==
    IF instruction \notin DOMAIN AssemblerInstructions
    THEN [error |-> TRUE, opcode |-> 0, operands |-> <<>>]
    ELSE [error |-> FALSE,
          opcode |-> AssemblerInstructions[instruction],
          operands |->
              CASE instruction \in {"ADD", "SUB", "MUL", "DIV", "AND", "OR", "XOR",
                                    "LDA", "STA", "CMP"} -> <<"operand">>
                [] instruction = "LDI" -> <<"immediate">>
                [] instruction \in {"JMP", "JZ", "JNZ", "JC", "JNC", "JV", "JNV",
                                    "JN", "JNN"} -> <<"address">>
                [] OTHER -> <<>>]

GetInstructionInfo ==
    \E instruction \in Mnemonics \cup DOMAIN AssemblerInstructions \cup {"FOO"} :
        /\ lastCall' = [op |-> "get_instruction_info", instruction |-> instruction,
                        returned |-> get_instruction_info(instruction)]
        /\ UNCHANGED <<machine, current_task, run, step_calls>>

SpecProcessorCalls == Init /\ [][UpdateFlags \/ ParseOperand \/ GetInstructionInfo]_vars

(***************************************************************************)
(* Properties.                                                             *)
(***************************************************************************)
Frame == <<registers, flags, ram, program_counter, cycles, history>>

(* the compiled line at the program counter of a processor that can run    *)
CanExecute ==
    /\ ~is_halted
    /\ compiled_code # <<>>
    /\ IsInt(program_counter)
    /\ ~EndOfProgram(Machine)
    /\ InList(compiled_code, program_counter.n)

CurrentLine == compiled_code[ListIndex(compiled_code, program_counter.n)]

LastEntry == history[Len(history)]

(* C1: once the processor is halted, a step returns False and changes no   *)
(* register, flag, memory cell, program counter, cycle counter or history  *)
(* entry (a run performs no step at all), and the processor is runnable    *)
(* again only after load_program, load_task, reset or a run that was given *)
(* a source text to load.                                                  *)
C1_HaltedIsTerminal ==
    [][is_halted =>
          /\ lastCall'.op = "step" =>
                 /\ ~lastCall'.continues
                 /\ lastCall'.success
                 /\ UNCHANGED Frame
                 /\ is_halted'
          /\ (lastCall'.op = "run" /\ ~lastCall'.source) =>
                 /\ lastCall'.calls = 0
                 /\ UNCHANGED Frame
                 /\ is_halted'
          /\ ~is_halted' =>
                 \/ lastCall'.op \in {"load_program", "load_task", "reset"}
                 \/ lastCall'.op = "run" /\ lastCall'.source]_vars

(* a step was called on a processor that an error had halted               *)
C1_Witness ==
    /\ lastCall.op = "step"
    /\ lastCall.was_halted
    /\ is_halted
    /\ current_command.kind = "error"

(* C2: a step advances one phase of three, so a call of step that is not   *)
(* the third one of its instruction changes no register, flag, memory      *)
(* cell, program counter or cycle counter.                                 *)
C2_OnePhasePerStep ==
    [][(lastCall'.op = "step" /\ ~is_halted /\ step_calls' % 3 # 0) =>
          UNCHANGED <<registers, flags, ram, program_counter, cycles>>]_vars

(* C3: the history holds as many fetch entries as decode entries as        *)
(* execute entries as instructions were executed.                          *)
Phase(entry) == IF "phase" \in DOMAIN entry THEN entry.phase ELSE "none"

PhaseCount(phase) == Cardinality({i \in 1..Len(history) : Phase(history[i]) = phase})

C3_PhaseEntriesMatch ==
    /\ PhaseCount("fetch") = cycles
    /\ PhaseCount("decode") = cycles
    /\ PhaseCount("execute") = cycles

(* C4: load_program sets the program counter to 0, halted to false, the    *)
(* four flags to false, the eight registers to 0, the cycle counter to 0   *)
(* and the history to empty, and leaves the memory as it was.              *)
C4_LoadProgramResets ==
    [][lastCall'.op = "load_program" =>
          /\ program_counter' = IntV(0)
          /\ ~is_halted'
          /\ flags' = NoFlags
          /\ registers' = Zeros(8)
          /\ cycles' = 0
          /\ history' = <<>>
          /\ ram' = ram]_vars

(* a program was loaded over a memory that an earlier program wrote        *)
C4_Witness ==
    /\ lastCall.op = "load_program"
    /\ cycles = 0
    /\ \E a \in 1..Len(ram) : ram[a] # 0

(* C5: a call of execute_program with budget n returns, and it returns     *)
(* with steps_executed <= n and with the processor halted or               *)
(* steps_executed = n.                                                     *)
RunReturned(n) ==
    /\ ~run.active
    /\ lastCall.op = "run"
    /\ lastCall.success
    /\ lastCall.max_steps = n
    /\ lastCall.calls <= n
    /\ lastCall.steps <= n
    /\ is_halted \/ lastCall.steps = n

C5_RunTerminates ==
    \A n \in 0..MaxRunSteps : (run.active /\ run.max_steps = n) ~> RunReturned(n)

(* a run of a program that jumps backwards for ever returned with the      *)
(* budget spent and the processor not halted                               *)
C5_Witness ==
    /\ RunReturned(MaxRunSteps)
    /\ lastCall.steps = MaxRunSteps
    /\ lastCall.calls = MaxRunSteps
    /\ ~is_halted
    /\ cycles = MaxRunSteps
    /\ \E i \in 1..Len(history) :
           /\ history[i].instruction = "JMP"
           /\ history[i].programCounter < history[i].programCounter_before

(* C6: when the last instruction executed was a jump that left the program *)
(* counter at or beyond the length of the program, the next step halts the *)
(* processor and returns False without raising, and changes no register,   *)
(* flag, memory cell, cycle counter or history entry.                      *)
JumpMnemonics == {"JMP", "JZ", "JNZ", "JC", "JNC"}

JumpedPastEnd ==
    /\ ~is_halted
    /\ history # <<>>
    /\ LastEntry.instruction \in JumpMnemonics
    /\ LastEntry.programCounter # LastEntry.programCounter_before + 1
    /\ IsInt(program_counter)
    /\ program_counter.n >= Len(compiled_code)

C6_JumpPastEndHalts ==
    [][(JumpedPastEnd /\ lastCall'.op = "step") =>
          /\ is_halted'
          /\ ~lastCall'.continues
          /\ lastCall'.success
          /\ lastCall'.exc = ""
          /\ UNCHANGED <<registers, flags, ram, cycles, history, program_counter>>]_vars

(* the step after a taken JC to a label defined after the last instruction *)
C6_Witness ==
    /\ lastCall.op = "step"
    /\ ~lastCall.was_halted
    /\ is_halted
    /\ history # <<>>
    /\ LastEntry.instruction = "JC"
    /\ LastEntry.programCounter = Len(compiled_code)
    /\ LastEntry.programCounter # LastEntry.programCounter_before + 1
    /\ program_counter = IntV(Len(compiled_code))

(* C7, as stated: when executing an instruction raises, the step returns   *)
(* False, the processor is halted, and the current command is the          *)
(* offending instruction line.                                             *)
C7_ErrorRecordsLine ==
    [][(lastCall'.op = "step" /\ lastCall'.exc # "") =>
          /\ ~lastCall'.continues
          /\ is_halted'
          /\ current_command' = LineCommand(CurrentLine)]_vars

(* C7, amended: when executing an instruction raises, the step returns     *)
(* False, the processor is halted, the current command is the text         *)
(* "ERROR: " followed by the message of the error, and the offending line  *)
(* stays in instruction_register_asm.                                      *)
C7_ErrorRecordsMessage ==
    [][(lastCall'.op = "step" /\ lastCall'.exc # "") =>
          /\ ~lastCall'.continues
          /\ lastCall'.success
          /\ is_halted'
          /\ current_command' = ErrorCommand(lastCall'.exc)
          /\ instruction_register_asm' = LineCommand(CurrentLine)]_vars

(* a step failed on an instruction that is not in the instruction set      *)
C7_Witness ==
    /\ lastCall.op = "step"
    /\ lastCall.exc # ""
    /\ is_halted
    /\ instruction_register_asm.kind = "line"
    /\ instruction_register_asm.line.instruction = "FOO"

(* C8: a step on a DIV whose divisor operand resolves to 0 fails with      *)
(* "Division by zero", halts the processor and leaves every register, the  *)
(* destination among them, with its previous value.                        *)
DivisorIsZero ==
    /\ CanExecute
    /\ CurrentLine.instruction = "DIV"
    /\ Len(CurrentLine.operands) >= 3
    /\ \A i \in 1..3 : _parse_operand(CurrentLine.operands[i]).ok
    /\ LET rs2 == _parse_operand(CurrentLine.operands[3])
       IN  /\ rs2.mode \in {"direct", "register", "indirect_register"}
           /\ _get_operand_value(ExecPart(Machine), rs2.v, rs2.mode) = IntV(0)

C8_DivisionByZero ==
    [][(DivisorIsZero /\ lastCall'.op = "step") =>
          /\ lastCall'.exc = "Division by zero"
          /\ ~lastCall'.continues
          /\ is_halted'
          /\ registers' = registers
          /\ ram' = ram]_vars

(* a division of R3 = 2 by a register holding 0 failed and R3 is still 2   *)
C8_Witness ==
    /\ lastCall.op = "step"
    /\ lastCall.exc = "Division by zero"
    /\ is_halted
    /\ instruction_register_asm.line.instruction = "DIV"
    /\ registers[4] = 2

(* C9: every register and every memory cell holds an integer in 0..0xFFFF. *)
C9_SixteenBit ==
    /\ \A i \in 1..Len(registers) : registers[i] \in 0..(Word - 1)
    /\ \A a \in 1..Len(ram) : ram[a] \in 0..(Word - 1)

(* -1 was stored into a register and into a memory cell                    *)
C9_Witness ==
    /\ registers[3] = Word - 1
    /\ \E a \in 1..Len(ram) : ram[a] = Word - 1

(* C10: a step on an LDI whose source is not immediate, or on an LDR or    *)
(* STR whose address is not direct, fails and halts the processor.         *)
ModeMismatch ==
    /\ CanExecute
    /\ Len(CurrentLine.operands) >= 2
    /\ \A i \in 1..2 : _parse_operand(CurrentLine.operands[i]).ok
    /\ LET mode == _parse_operand(CurrentLine.operands[2]).mode
       IN  \/ CurrentLine.instruction = "LDI" /\ mode # "immediate"
           \/ CurrentLine.instruction \in {"LDR", "STR"} /\ mode # "direct"

C10_ModeMismatchFails ==
    [][(ModeMismatch /\ lastCall'.op = "step") =>
          /\ lastCall'.exc # ""
          /\ is_halted']_vars

(* C11: a step on an LDR or STR whose direct address lies outside          *)
(* 0..memory_size-1 fails, halts the processor and leaves every memory     *)
(* cell and the memory length as they were.                                *)
AddressOutOfBounds ==
    /\ CanExecute
    /\ CurrentLine.instruction \in {"LDR", "STR"}
    /\ Len(CurrentLine.operands) >= 2
    /\ \A i \in 1..2 : _parse_operand(CurrentLine.operands[i]).ok
    /\ LET addr == _parse_operand(CurrentLine.operands[2])
       IN  /\ addr.mode = "direct"
           /\ IsInt(addr.v)
           /\ (addr.v.n < 0 \/ addr.v.n >= Len(ram))

C11_OutOfBoundsFails ==
    [][(AddressOutOfBounds /\ lastCall'.op = "step") =>
          /\ lastCall'.exc # ""
          /\ is_halted'
          /\ ram' = ram]_vars

(* C12: a successful load_program or load_task leaves the history empty,   *)
(* and a step, or a run of the loaded program, keeps every entry already   *)
(* recorded in its place and unaltered, adding entries only at the end.    *)
C12_HistoryGrows ==
    [][/\ (lastCall'.op \in {"load_program", "load_task"} /\ lastCall'.success) =>
              history' = <<>>
       /\ (lastCall'.op = "step" \/ (lastCall'.op = "run" /\ ~lastCall'.source)) =>
              /\ Len(history') >= Len(history)
              /\ SubSeq(history', 1, Len(history)) = history]_vars

C12_Witness ==
    /\ lastCall.op = "step"
    /\ lastCall.success
    /\ Len(history) >= 2
    /\ history[1] # history[2]

(* C13: every history entry carries a phase tag, the instruction line, the *)
(* registers and flags before and after, and a snapshot of memory before   *)
(* and after the instruction.                                              *)
C13_EntryFields ==
    \A i \in 1..Len(history) :
        {"phase", "command", "registers_before", "registers_after",
         "flags_before", "flags_after", "memory_before", "memory_after"}
            \subseteq DOMAIN history[i]

(* C14: changing any part of a state returned by get_state, execute_step   *)
(* or execute_program changes nothing in the processor: not its registers, *)
(* flags, memory, history or program.                                      *)
C14_SnapshotIsCopy ==
    [][lastCall'.op = "mutate_snapshot" => UNCHANGED machine]_vars

(* The source lines of the last compile_code call as parse_line reads      *)
(* them, the lines that define a label, the compiled index of the first    *)
(* instruction at or after a line, and whether every operand that names    *)
(* the label stands in the machine code as the decimal text of an index.   *)
CompiledLines == ParseLines(lastCall.source_code)

DefinedAt(label) ==
    {i \in 1..Len(CompiledLines) : CompiledLines[i].label = label}

IndexAt(i) == Cardinality({j \in 1..(i - 1) : CompiledLines[j].instruction # ""})

ReferencesBecome(label, index) ==
    \A i \in 1..Len(CompiledLines) :
        CompiledLines[i].instruction # "" =>
            /\ IndexAt(i) < Len(lastCall.machine_code)
            /\ LET line == lastCall.machine_code[IndexAt(i) + 1]
               IN  /\ line.instruction = CompiledLines[i].instruction
                   /\ Len(line.operands) = Len(CompiledLines[i].operands)
                   /\ \A j \in 1..Len(line.operands) :
                          CompiledLines[i].operands[j] = label =>
                              line.operands[j] = PyStr(index)

(* C15: assemble maps a label to the compiled index of the first           *)
(* instruction at or after the line that defines it (the compiled length   *)
(* if none follows), whatever empty, comment or bare-label lines stand     *)
(* before it, and replaces every reference to the label, also one that     *)
(* stands before the definition, by that index.                            *)
C15_LabelIndex ==
    lastCall.op = "compile_code" =>
        \A i \in 1..Len(CompiledLines) :
            (CompiledLines[i].label # <<>>
             /\ DefinedAt(CompiledLines[i].label) = {i}) =>
                /\ CompiledLines[i].label \in DOMAIN lastCall.labels
                /\ lastCall.labels[CompiledLines[i].label] = IndexAt(i)
                /\ IndexAt(i) <= Len(lastCall.machine_code)
                /\ ReferencesBecome(CompiledLines[i].label, IndexAt(i))

(* "jmp A", an empty or comment line, then "A: NOP ; x"                    *)
C15_Witness ==
    /\ lastCall.op = "compile_code"
    /\ Len(lastCall.source_code) = 3
    /\ CompiledLines[1] = SrcLine(<<>>, "JMP", <<<<"A">>>>)
    /\ CompiledLines[2] = SrcLine(<<>>, "", <<>>)
    /\ CompiledLines[3] = SrcLine(<<"A">>, "NOP", <<>>)
    /\ lastCall.labels[<<"A">>] = 1
    /\ lastCall.machine_code =
           <<CodeLine("JMP", <<<<"1">>>>), CodeLine("NOP", <<>>)>>

(* the last line that defines the label                                    *)
LastDefinedAt(label) ==
    CHOOSE i \in DefinedAt(label) : \A j \in DefinedAt(label) : j <= i

(* C16: for a label defined on more than one line compile_code succeeds,   *)
(* the label table holds the compiled index of the last definition, and    *)
(* every reference to the label, before or after that definition, is       *)
(* replaced by that index.                                                 *)
C16_LastDefinitionWins ==
    lastCall.op = "compile_code" =>
        \A i \in 1..Len(CompiledLines) :
            (CompiledLines[i].label # <<>>
             /\ Cardinality(DefinedAt(CompiledLines[i].label)) > 1) =>
                /\ lastCall.success
                /\ CompiledLines[i].label \in DOMAIN lastCall.labels
                /\ lastCall.labels[CompiledLines[i].label] =
                       IndexAt(LastDefinedAt(CompiledLines[i].label))
                /\ ReferencesBecome(CompiledLines[i].label,
                                    IndexAt(LastDefinedAt(CompiledLines[i].label)))

(* "A: NOP ; x", "jmp A", then "A:" on the last line                       *)
C16_Witness ==
    /\ lastCall.op = "compile_code"
    /\ DefinedAt(<<"A">>) = {1, 3}
    /\ IndexAt(1) = 0
    /\ IndexAt(3) = 2
    /\ lastCall.labels[<<"A">>] = 2
    /\ lastCall.machine_code =
           <<CodeLine("NOP", <<>>), CodeLine("JMP", <<<<"2">>>>)>>

C18_RoundTrip ==
    lastCall.op = "_decode_instruction" => lastCall.encoded = lastCall.instruction

(* a run that began on the freshly loaded program and stopped before its   *)
(* budget of steps was used up                                             *)
RanToEnd(i) ==
    /\ lastCall.op = "run"
    /\ compiled_code = CompiledPrograms[i]
    /\ lastCall.source \/ step_calls = lastCall.calls
    /\ lastCall.steps < lastCall.max_steps

(* C19: after loading LDI 10 / STA [0] / LDI 20 / ADD [0] / HALT and       *)
(* running it, R0 is 30, the processor is halted and the cycle counter     *)
(* is 4.                                                                   *)
C19_SumProgram ==
    RanToEnd(11) => (registers[1] = 30 /\ is_halted /\ cycles = 4)

(* C20: after loading LDI 5 / STA [0x10] / LDA [0x10] / HALT and running   *)
(* it to completion, R0 is 5 and the processor is halted, the HALT         *)
(* instruction being the command that halted it.                           *)
C20_StoreLoadProgram ==
    RanToEnd(12) =>
        /\ registers[1] = 5
        /\ is_halted
        /\ current_command = LineCommand(CodeLine("HALT", <<>>))

(* the first execute_program since load_task(task_id) has returned         *)
TaskRan(task_id) ==
    /\ lastCall.op = "run"
    /\ ~run.active
    /\ current_task = task_id
    /\ lastCall.max_steps = DefaultMaxSteps
    /\ lastCall.calls = step_calls

(* verify_current_task has returned for a task whose program has halted    *)
TaskVerified(task_id) ==
    /\ lastCall.op = "verify"
    /\ ~run.active
    /\ current_task = task_id
    /\ is_halted

(* C21: after load_task(1) and a run with the budget of 1000 steps the     *)
(* sum program has halted on HALT with R0 = 280, and verify reports        *)
(* expected = actual = 280 and success.                                    *)
C21_SumArray ==
    /\ TaskRan(1) =>
           /\ is_halted
           /\ current_command = LineCommand(CodeLine("HALT", <<>>))
           /\ registers[1] = 280
           /\ lastCall.steps < DefaultMaxSteps
    /\ TaskVerified(1) =>
           /\ lastCall.success
           /\ lastCall.verification =
                  <<[task_id |-> 1, success |-> TRUE, expected |-> 280, actual |-> 280]>>

C21_Witness ==
    /\ TaskVerified(1)
    /\ step_calls = Len(history)
    /\ Len(history) > MaxCycles
    /\ history[Len(history)].instruction = "HALT"
    /\ lastCall.verification[1].success

(* C22: after load_task(2) and a run with the budget of 1000 steps the     *)
(* dot-product program has halted on HALT, and verify reports expected =   *)
(* actual = 50 and success.                                                *)
C22_DotProduct ==
    /\ TaskRan(2) =>
           /\ is_halted
           /\ current_command = LineCommand(CodeLine("HALT", <<>>))
           /\ lastCall.steps < DefaultMaxSteps
    /\ TaskVerified(2) =>
           /\ lastCall.success
           /\ lastCall.verification =
                  <<[task_id |-> 2, success |-> TRUE, expected |-> 50, actual |-> 50]>>

C22_Witness ==
    /\ TaskVerified(2)
    /\ step_calls = Len(history)
    /\ Len(history) > MaxCycles
    /\ history[Len(history)].instruction = "HALT"
    /\ lastCall.verification[1].success

(* C23: verify_current_task without a current task, before any load_task   *)
(* or after a reset, returns the error "No task loaded" and no             *)
(* verification; with a current task it returns a verification whose       *)
(* success tells whether expected and actual are equal, and raises         *)
(* nothing; it changes nothing in the processor.                           *)
C23_VerifyReturnsData ==
    [][(lastCall'.op = "verify" /\ ~run.active /\ UNCHANGED run) =>
          /\ UNCHANGED <<machine, current_task>>
          /\ lastCall'.exc = ""
          /\ current_task = 0 =>
                 /\ ~lastCall'.success
                 /\ lastCall'.error = "No task loaded"
                 /\ lastCall'.verification = <<>>
          /\ current_task # 0 =>
                 /\ Len(lastCall'.verification) = 1
                 /\ lastCall'.verification[1].actual = registers[1]
                 /\ lastCall'.verification[1].success =
                        (lastCall'.verification[1].expected = registers[1])]_vars

(* a verify of a loaded task whose program has not produced the expected   *)
(* value                                                                   *)
C23_Witness ==
    /\ lastCall.op = "verify"
    /\ current_task # 0
    /\ Len(lastCall.verification) = 1
    /\ ~lastCall.verification[1].success
    /\ lastCall.verification[1].expected # lastCall.verification[1].actual

(* C24: JMP is always taken, JZ iff the zero flag is set, JNZ iff it is    *)
(* clear, JC iff the carry flag is set, JNC iff it is clear.  A taken jump *)
(* leaves the program counter at the literal of an immediate operand or at *)
(* the content of the cell a direct operand addresses, with no increment;  *)
(* a jump that is not taken leaves it at PC + 1; neither changes a         *)
(* register, a flag or a memory cell.                                      *)
OnJump ==
    /\ CanExecute
    /\ CurrentLine.instruction \in JumpMnemonics
    /\ Len(CurrentLine.operands) >= 1

JumpTaken ==
    CASE CurrentLine.instruction = "JMP" -> TRUE
      [] CurrentLine.instruction = "JZ" -> flags.zero
      [] CurrentLine.instruction = "JNZ" -> ~flags.zero
      [] CurrentLine.instruction = "JC" -> flags.carry
      [] CurrentLine.instruction = "JNC" -> ~flags.carry

C24_JumpGating ==
    [][(OnJump /\ lastCall'.op = "step") =>
          LET addr == _parse_operand(CurrentLine.operands[1])
          IN  /\ registers' = registers
              /\ flags' = flags
              /\ ram' = ram
              /\ (~JumpTaken) => program_counter' = IntV(program_counter.n + 1)
              /\ (JumpTaken /\ addr.ok /\ addr.mode = "immediate" /\ IsInt(addr.v))
                     => program_counter' = addr.v
              /\ (JumpTaken /\ addr.ok /\ addr.mode = "direct"
                      /\ addr.v.n >= 0 /\ addr.v.n < Len(ram))
                     => program_counter' = IntV(ram[addr.v.n + 1])]_vars

(* SUB left the carry flag set and the JC that followed went to the value  *)
(* 32768 held by the cell its operand addresses                            *)
C24_Witness ==
    /\ lastCall.op = "step"
    /\ history # <<>>
    /\ LastEntry.instruction = "JC"
    /\ flags.carry
    /\ ram[2] = 32768
    /\ program_counter = IntV(32768)
    /\ cycles = 5

(* the value of operand i of a compiled line in the current state          *)
OperandValue(line, i) ==
    LET o == _parse_operand(line.operands[i])
    IN  _get_operand_value(ExecPart(Machine), o.v, o.mode)

OnCmp(line) ==
    /\ line.instruction = "CMP"
    /\ Len(line.operands) >= 2
    /\ \A i \in 1..2 : _parse_operand(line.operands[i]).ok
    /\ \A i \in 1..2 : IsInt(OperandValue(line, i))

(* C25: a step on CMP sets the flags from the unmasked difference of its   *)
(* two operand values, zero iff they are equal and negative iff the first  *)
(* is smaller than the second, and changes no register and no memory cell; *)
(* a JZ executed directly after a CMP is taken iff the two values compared *)
(* are equal.                                                              *)
C25_CompareSetsFlagsOnly ==
    [][/\ (CanExecute /\ OnCmp(CurrentLine) /\ lastCall'.op = "step") =>
             LET difference == OperandValue(CurrentLine, 1).n - OperandValue(CurrentLine, 2).n
             IN  /\ registers' = registers
                 /\ ram' = ram
                 /\ flags'.zero = (OperandValue(CurrentLine, 1) = OperandValue(CurrentLine, 2))
                 /\ flags'.negative = (OperandValue(CurrentLine, 1).n < OperandValue(CurrentLine, 2).n)
                 /\ flags'.overflow = (difference > 32767 \/ difference < -32768)
                 /\ ~flags'.carry
                 /\ program_counter' = IntV(program_counter.n + 1)
       /\ (/\ CanExecute
           /\ CurrentLine.instruction = "JZ"
           /\ Len(CurrentLine.operands) >= 1
           /\ program_counter.n >= 1
           /\ OnCmp(compiled_code[program_counter.n])
           /\ history # <<>>
           /\ LastEntry.instruction = "CMP"
           /\ lastCall'.op = "step") =>
             LET compared == compiled_code[program_counter.n]
             IN  (program_counter' # IntV(program_counter.n + 1))
                     = (OperandValue(compared, 1) = OperandValue(compared, 2))]_vars

(* CMP R1, R2 with R1 = 0 and R2 = 1 left negative set and zero clear, the *)
(* registers as they were, and the JZ after it was not taken               *)
C25_Witness ==
    /\ lastCall.op = "step"
    /\ Len(history) = 5
    /\ history[4].instruction = "CMP"
    /\ history[4].operands = <<<<"R", "1">>, <<"R", "2">>>>
    /\ LastEntry.instruction = "JZ"
    /\ registers[2] = 0
    /\ registers[3] = 1
    /\ flags.negative
    /\ ~flags.zero
    /\ program_counter = IntV(5)

(* C26: update_flags(result, op) leaves zero = (result = 0), negative =    *)
(* (result < 0), overflow = (result > 32767 or result < -32768) and carry  *)
(* set exactly when op is "add" and result < 0 or op is "sub" and          *)
(* result > 0, for every result and every op.                              *)
C26_FlagRule ==
    lastCall.op = "update_flags" =>
        /\ flags.zero = (lastCall.result = 0)
        /\ flags.negative = (lastCall.result < 0)
        /\ flags.overflow = (lastCall.result > 32767 \/ lastCall.result < -32768)
        /\ flags.carry = \/ (lastCall.operation = "add" /\ lastCall.result < 0)
                         \/ (lastCall.operation = "sub" /\ lastCall.result > 0)

(* update_flags(-32769, "add"): negative, overflow and carry set           *)
C26_Witness ==
    /\ lastCall.op = "update_flags"
    /\ lastCall.result = -32769
    /\ lastCall.operation = "add"
    /\ flags = [zero |-> FALSE, negative |-> TRUE, overflow |-> TRUE, carry |-> TRUE]

(* a step on an ALU instruction that has its operands and can compute     *)
OnAlu ==
    /\ CanExecute
    /\ \/ CurrentLine.instruction \in {"ADD", "SUB", "MUL", "DIV", "AND", "OR", "XOR"}
          /\ Len(CurrentLine.operands) >= 3
       \/ CurrentLine.instruction = "NOT" /\ Len(CurrentLine.operands) >= 2
    /\ \A i \in 1..Len(CurrentLine.operands) : _parse_operand(CurrentLine.operands[i]).ok
    /\ _parse_operand(CurrentLine.operands[1]).v \in {IntV(r) : r \in 0..7}
    /\ \A i \in 2..Len(CurrentLine.operands) : IsInt(OperandValue(CurrentLine, i))
    /\ CurrentLine.instruction = "DIV" => OperandValue(CurrentLine, 3).n # 0

(* the result of the operation on the operand values, reduced modulo 2^16  *)
MathResult ==
    LET a == OperandValue(CurrentLine, 2).n
        b == IF CurrentLine.instruction = "NOT" THEN 0 ELSE OperandValue(CurrentLine, 3).n
    IN  CASE CurrentLine.instruction = "ADD" -> (a + b) % Word
          [] CurrentLine.instruction = "SUB" -> (a - b) % Word
          [] CurrentLine.instruction = "MUL" -> (a * b) % Word
          [] CurrentLine.instruction = "DIV" -> FloorDiv(a, b) % Word
          [] CurrentLine.instruction = "AND" -> BitAnd(a % Word, b % Word)
          [] CurrentLine.instruction = "OR" -> BitOr(a % Word, b % Word)
          [] CurrentLine.instruction = "XOR" -> BitXor(a % Word, b % Word)
          [] CurrentLine.instruction = "NOT" -> (Word - 1) - (a % Word)

(* C27: a step on ADD, SUB, MUL, AND, OR, XOR, NOT, or on DIV with a       *)
(* divisor other than 0, leaves in the destination register the result of  *)
(* the operation on the operand values modulo 2^16 (floor quotient for     *)
(* DIV, complement for NOT), changes no other register and no memory cell, *)
(* and advances the program counter by 1.                                  *)
C27_AluResult ==
    [][(OnAlu /\ lastCall'.op = "step") =>
          LET rd == _parse_operand(CurrentLine.operands[1]).v.n
          IN  /\ registers'[rd + 1] = MathResult
              /\ \A r \in 0..7 : r # rd => registers'[r + 1] = registers[r + 1]
              /\ Len(registers') = 8
              /\ ram' = ram
              /\ program_counter' = IntV(program_counter.n + 1)]_vars

(* MUL R0, R1, R2 with R1 = 65535 and R2 = 32768 left 32768 in R0          *)
C27_Witness ==
    /\ lastCall.op = "step"
    /\ Len(history) = 4
    /\ LastEntry.instruction = "MUL"
    /\ LastEntry.operands = <<<<"R", "0">>, <<"R", "1">>, <<"R", "2">>>>
    /\ registers[2] = 65535
    /\ registers[3] = 32768
    /\ registers[1] = 32768
    /\ program_counter = IntV(4)

(* a token written as a decimal, a hexadecimal, a bracketed address or a   *)
(* register                                                                *)
WrittenAsNumberOrRegister(token) ==
    \/ IsDigit(token)
    \/ StartsWith(token, <<"-">>) /\ IsDigit(Rest(token, 1))
    \/ StartsWith(Lower(token), <<"0", "x">>)
    \/ StartsWith(token, <<"[">>) /\ token[Len(token)] = "]"
    \/ Len(token) = 2 /\ Upper(<<token[1]>>) = <<"R">> /\ IsDigit(<<token[2]>>)

(* C28: whatever labels the source text defines, also one spelled like a   *)
(* number or a register, every decimal, hexadecimal, bracketed and         *)
(* register operand stands in the machine code exactly as it was written.  *)
C28_NumbersAreNotLabels ==
    lastCall.op = "compile_code" =>
        \A i \in 1..Len(CompiledLines) :
            CompiledLines[i].instruction # "" =>
                \A j \in 1..Len(CompiledLines[i].operands) :
                    WrittenAsNumberOrRegister(CompiledLines[i].operands[j]) =>
                        lastCall.machine_code[IndexAt(i) + 1].operands[j]
                            = CompiledLines[i].operands[j]

(* C29: the operand parser of the processor classifies a token wrapped in  *)
(* brackets as a number with mode direct, else a token starting with 0x or *)
(* 0X as a number with mode direct, else a decimal integer with an         *)
(* optional minus sign as immediate, and any other token as an unresolved  *)
(* label with mode immediate.                                              *)
C29_OperandPriority ==
    lastCall.op = "_parse_operand" =>
        LET token == lastCall.operand_str
            returned == lastCall.returned
        IN  IF StartsWith(token, <<"[">>) /\ token[Len(token)] = "]"
            THEN returned.ok => (returned.mode = "direct" /\ IsInt(returned.v))
            ELSE IF StartsWith(token, <<"0", "x">>) \/ StartsWith(token, <<"0", "X">>)
            THEN returned.ok => (returned.mode = "direct" /\ IsInt(returned.v))
            ELSE IF IsDigit(token) \/ (StartsWith(token, <<"-">>) /\ IsDigit(Rest(token, 1)))
            THEN returned.ok /\ returned.mode = "immediate" /\ IsInt(returned.v)
            ELSE returned = Parsed(StrV(token), "immediate")

(* C30: no call other than reset makes the number of memory cells smaller, *)
(* and load_program leaves it as it is.                                    *)
C30_MemoryNeverShrinks ==
    [][/\ lastCall'.op # "reset" => Len(ram') >= Len(ram)
       /\ lastCall'.op = "load_program" => Len(ram') = Len(ram)]_vars

(* load_task(2) grew the memory to 780 cells, and load_task(1), which      *)
(* needs fewer, and load_program have left it at 780                       *)
C30_Witness ==
    /\ lastCall.op = "load_program"
    /\ current_task = 1
    /\ Len(ram) = 780
    /\ Len(ram) > MemorySize

C32_HistoryCountsCycles ==
    Len(history) = cycles

(* C33: a step of a processor that is not halted raises nothing; when it   *)
(* executes an instruction, the program counter is an index from 0 to the  *)
(* length of the program less 1 and the instruction is the line at that    *)
(* index; when it executes none, it halts the processor and returns False. *)
C33_ExecutesLineAtCounter ==
    [][(~is_halted /\ lastCall'.op = "step") =>
          /\ lastCall'.success
          /\ Len(history') > Len(history) =>
                 /\ IsInt(program_counter)
                 /\ 0 <= program_counter.n
                 /\ program_counter.n < Len(compiled_code)
                 /\ history'[Len(history')].command = compiled_code[program_counter.n + 1]
          /\ Len(history') = Len(history) =>
                 (is_halted' /\ ~lastCall'.continues)]_vars

(* C34: a step that ends in an error leaves every register, flag and      *)
(* memory cell, the program counter, the cycle counter and the history as  *)
(* they were before the step.                                              *)
C34_ErrorChangesNothing ==
    [][(lastCall'.op = "step" /\ lastCall'.exc # "") =>
          /\ registers' = registers
          /\ flags' = flags
          /\ ram' = ram
          /\ program_counter' = program_counter
          /\ cycles' = cycles
          /\ history' = history]_vars

(* C35: when a step has returned, the value it returned is the negation of *)
(* the halted flag.                                                        *)
C35_ReturnsNotHalted ==
    lastCall.op = "step" => (lastCall.continues = ~is_halted)

(* step executed HALT and returned False; step executed another            *)
(* instruction before it and returned True                                 *)
C35_Witness ==
    /\ lastCall.op = "step"
    /\ lastCall.calls = 1
    /\ lastCall.exc = ""
    /\ ~lastCall.continues
    /\ is_halted
    /\ Len(history) >= 2
    /\ LastEntry.instruction = "HALT"

(* C36: the history entry a step appends holds the registers, the flags    *)
(* and the program counter of the state before the step as its             *)
(* before-values and those of the state after the step as its              *)
(* after-values, and of two consecutive entries the later one's            *)
(* before-values are the earlier one's after-values.                       *)
C36_EntryRecordsStep ==
    /\ [](\A i \in 1..(Len(history) - 1) :
              /\ history[i + 1].registers_before = history[i].registers_after
              /\ history[i + 1].flags_before = history[i].flags_after
              /\ history[i + 1].programCounter_before = history[i].programCounter)
    /\ [][(lastCall'.op = "step" /\ Len(history') = Len(history) + 1) =>
             LET entry == history'[Len(history')]
             IN  /\ entry.registers_before = registers
                 /\ entry.flags_before = flags
                 /\ IntV(entry.programCounter_before) = program_counter
                 /\ entry.registers_after = registers'
                 /\ entry.flags_after = flags'
                 /\ IntV(entry.programCounter) = program_counter']_vars

(* two steps, each of which changed a register, with their two entries     *)
C36_Witness ==
    /\ lastCall.op = "step"
    /\ Len(history) = 2
    /\ history[1].registers_before # history[1].registers_after
    /\ history[2].registers_before # history[2].registers_after
    /\ history[2].registers_before = history[1].registers_after
    /\ history[2].registers_after = registers
    /\ history[2].programCounter_before = 1

(* C37: the flags are clear after a load; a step sets the carry flag only  *)
(* on a SUB whose 16-bit result is not 0, and every ADD, MUL, DIV, AND,    *)
(* OR, XOR, NOT and CMP that completes leaves it clear, so that a JC is    *)
(* taken only with the carry of such a SUB; a step sets the negative flag  *)
(* only on a CMP, and every ALU instruction that completes leaves it       *)
(* clear.                                                                  *)
C37_CarryOnlyFromSub ==
    /\ [](lastCall.op = "load_program" => flags = NoFlags)
    /\ [][(CanExecute /\ lastCall'.op = "step") =>
             /\ (flags'.carry /\ (~flags.carry \/ flags' # flags)) =>
                    /\ CurrentLine.instruction = "SUB"
                    /\ Len(CurrentLine.operands) >= 3
                    /\ (OperandValue(CurrentLine, 2).n - OperandValue(CurrentLine, 3).n)
                           % Word # 0
             /\ (/\ CurrentLine.instruction \in
                        {"ADD", "MUL", "DIV", "AND", "OR", "XOR", "NOT", "CMP"}
                 /\ lastCall'.exc = "") => ~flags'.carry
             /\ (/\ CurrentLine.instruction = "SUB"
                 /\ lastCall'.exc = "") => flags'.carry = (registers'[1] # 0)
             /\ (flags'.negative /\ (~flags.negative \/ flags' # flags)) =>
                    CurrentLine.instruction = "CMP"
             /\ (/\ CurrentLine.instruction \in
                        {"ADD", "SUB", "MUL", "DIV", "AND", "OR", "XOR", "NOT"}
                 /\ lastCall'.exc = "") => ~flags'.negative
             /\ (/\ CurrentLine.instruction = "JC"
                 /\ program_counter' # IntV(program_counter.n + 1)) =>
                    /\ flags.carry
                    /\ history # <<>>
                    /\ LastEntry.instruction = "SUB"
                    /\ LastEntry.registers_after[1] # 0]_vars

(* ADD R0, R1, -1 with R1 = 0 left 65535 in R0 with the carry and the      *)
(* negative flag clear, and the JC after it was not taken                  *)
C37_Witness ==
    /\ lastCall.op = "step"
    /\ Len(history) = 5
    /\ history[4].instruction = "ADD"
    /\ history[4].operands[3] = <<"-", "1">>
    /\ history[4].registers_after[1] = 65535
    /\ ~history[4].flags_after.carry
    /\ ~history[4].flags_after.negative
    /\ LastEntry.instruction = "JC"
    /\ program_counter = IntV(5)

(* C38: get_instruction_info returns a description for a mnemonic exactly  *)
(* when the processor executes the mnemonic without the error "Unknown     *)
(* instruction", and the opcode it reports is the one that step puts in    *)
(* the instruction register for the mnemonic.                              *)
C38_InstructionSetsAgree ==
    lastCall.op = "get_instruction_info" =>
        /\ (~lastCall.returned.error) =
               (ExecuteParsed(ExecPart(Machine), lastCall.instruction, <<>>).exc
                    # "Unknown instruction")
        /\ (~lastCall.returned.error) =>
               lastCall.returned.opcode = Opcode(lastCall.instruction)

(* the cells (list positions, address + 1) that setup_task_data writes for  *)
(* an exercise: the size cell and the elements of each of its arrays        *)
TaskDataRegion(task_id) ==
    IF task_id = 1 THEN 257..(257 + Task1Data[1])
    ELSE (513..(513 + Task2Data[1])) \cup (769..(769 + Task2Data[2 + Task2Data[1]]))

(* the test vector of the exercise lies at its base address in list         *)
TaskDataWritten(list, task_id) ==
    IF task_id = 1
    THEN \A i \in 1..(Task1Data[1] + 1) : list[256 + i] = Task1Data[i]
    ELSE /\ \A i \in 1..(Task2Data[1] + 1) : list[512 + i] = Task2Data[i]
         /\ \A i \in 1..(Task2Data[2 + Task2Data[1]] + 1) :
                list[768 + i] = Task2Data[1 + Task2Data[1] + i]

(* C39: a call of load_task for a known exercise, in any state and for any  *)
(* constructed memory size, writes the exercise's test vector at its base   *)
(* address, leaves every memory cell outside those data regions with the    *)
(* value it had before the call, and resets registers, flags, program       *)
(* counter, cycle counter and history; a call for an unknown id fails and   *)
(* changes nothing, the active exercise included.                           *)
C39_LoadTaskKeepsOtherCells ==
    [][lastCall'.op = "load_task" =>
          IF lastCall'.success
          THEN /\ TaskDataWritten(ram', current_task')
               /\ \A a \in 1..Len(ram) :
                      a \notin TaskDataRegion(current_task') => ram'[a] = ram[a]
               /\ registers' = NewMachine.registers
               /\ flags' = NewMachine.flags
               /\ program_counter' = NewMachine.program_counter
               /\ cycles' = NewMachine.cycles
               /\ history' = <<>>
          ELSE UNCHANGED <<machine, current_task>>]_vars

====
